---- MODULE Spec2Model ----
(***************************************************************************)
(* CSVSheetsBridge: the Appsflyer KPI pipeline.                            *)
(*                                                                         *)
(* Two processors are modelled side by side:                               *)
(*   base    = AppsflyerDataProcessor         (src/src/appsflyer_processor.py)         *)
(*   adapted = AppsflyerDataProcessorAdapted  (src/src/appsflyer_processor_adapted.py) *)
(*                                                                         *)
(* Numbers.  A KPI is a float in the source; here it is an exact fraction  *)
(* <<n, d>> with d >= 0, and +infinity is <<1, 0>>.  A rank produced by    *)
(* Series.rank() (method='average') can be a half-integer, so ranks are    *)
(* stored doubled (rank2 = 2 * rank).  Weights are stored in hundredths.   *)
(* An input cell is <<v>> for a numeric cell and <<>> for a blank (NaN).   *)
(***************************************************************************)
EXTENDS Integers, Sequences, FiniteSets, TLC

VARIABLES variant, raw_data, data, pc, processed_data, stats,
          script, args, remote, sheet_config, calls, results, ret, waits

\* the state of a run of one of the automation scripts and of the transport:
\* the script, its arguments, the sheets of the remote spreadsheet, the
\* detected sheet names, the transport calls made so far, the per-sheet
\* results, the value returned (<<>> while nothing has been returned, <<v>>
\* afterwards), and the sleeps of the retry decorator
runVars == <<script, args, remote, sheet_config, calls, results, ret, waits>>

vars == <<variant, raw_data, data, pc, processed_data, stats, runVars>>

(* ------------------------------ bounds --------------------------------- *)

\* Largest number of data rows in the input file.
MaxRows == 5

(* ------------------------- program constants --------------------------- *)

\* replace([np.inf, -np.inf], 9999999)
Sentinel == 9999999

\* SUPPORTED_MEDIA
TikTokSources == {"tiktokads_int", "tiktok", "bytedanceglobal_int"}

MetaSources == {"facebook", "facebook_int", "instagram", "instagram_int"}

\* weights of the base variant, in hundredths
WeightsBase == [rank_d1_cac |-> 50, rank_cpi |-> 20, rank_cpc |-> 15, rank_ctr |-> 15]

\* weights of the adapted variant, in hundredths
WeightsAdapted == [rank_d1_cac |-> 40, rank_cpi |-> 25, rank_cpc |-> 20, rank_ctr |-> 15]

\* the order in which the weights dictionaries list the rank columns
RankCols == <<"rank_d1_cac", "rank_cpi", "rank_cpc", "rank_ctr">>

(* ---------------------------- arithmetic ------------------------------- *)

Inf == <<1, 0>>

Zero == <<0, 1>>

IsInf(x) == x[2] = 0

\* x < y on fractions with non-negative denominators (+infinity included)
Lt(x, y) == x[1] * y[2] < y[1] * x[2]

\* x = y as numbers
Eq(x, y) == x[1] * y[2] = y[1] * x[2]

RECURSIVE Gcd(_, _)
Gcd(a, b) == IF b = 0 THEN a ELSE Gcd(b, a % b)

RECURSIVE SumSeq(_)
SumSeq(s) == IF s = <<>> THEN 0 ELSE Head(s) + SumSeq(Tail(s))

(* ------------------------------ inputs --------------------------------- *)

\* str.lower() on the strings that occur in the inputs
Lower(s) ==
    CASE s = "Facebook" -> "facebook"
      [] s = "iOS" -> "ios"
      [] s = "TTCX" -> "ttcx"
      [] OTHER -> s

\* pd.to_numeric(cell, errors='coerce') followed by fillna(0)
ToNumeric(cell) == IF cell = <<>> THEN 0 ELSE cell[1]

\* the volume cells of a row: cost, installs, clicks, impressions,
\* d1_retained_users, signups; a cell holds a number or is blank
Volumes ==
    << [cost |-> <<6>>, installs |-> <<2>>, clicks |-> <<3>>, impressions |-> <<4>>,
        d1_retained_users |-> <<2>>, signups |-> <<1>>],
       [cost |-> <<6>>, installs |-> <<2>>, clicks |-> <<3>>, impressions |-> <<4>>,
        d1_retained_users |-> <<>>, signups |-> <<0>>],
       [cost |-> <<0>>, installs |-> <<0>>, clicks |-> <<0>>, impressions |-> <<0>>,
        d1_retained_users |-> <<1>>, signups |-> <<0>>],
       [cost |-> <<10000000>>, installs |-> <<1>>, clicks |-> <<1>>, impressions |-> <<1>>,
        d1_retained_users |-> <<1>>, signups |-> <<1>>] >>

\* the identifying cells of a row of the base variant's input
BaseKeys ==
    << [campaign_name |-> "cmp", adset_name |-> "set", ad_name |-> <<"a">>,
        media_source |-> "tiktokads_int", platform |-> "android"],
       [campaign_name |-> "cmp", adset_name |-> "set", ad_name |-> <<"b">>,
        media_source |-> "tiktokads_int", platform |-> "android"],
       [campaign_name |-> "cmp", adset_name |-> "set", ad_name |-> <<"a">>,
        media_source |-> "Facebook", platform |-> "iOS"],
       [campaign_name |-> "cmp", adset_name |-> "set", ad_name |-> <<"c">>,
        media_source |-> "organic", platform |-> "android"] >>

\* the 'Ad' cell of a row of the adapted variant's input, as its words
AdNames ==
    << [ad_name |-> <<"TTCX", "tpo", "vdo">>],
       [ad_name |-> <<"meta", "blinddate", "img">>],
       [ad_name |-> <<"x">>] >>

Keys(v) == IF v = "base" THEN BaseKeys ELSE AdNames

NumKinds(v) == Len(Keys(v)) * Len(Volumes)

\* the k-th kind of input row of variant v
Kind(v, k) == Keys(v)[((k - 1) \div Len(Volumes)) + 1] @@ Volumes[((k - 1) % Len(Volumes)) + 1]

\* the non-decreasing sequences of n kinds drawn from lo..hi: the rows of a
\* file up to reordering (sum(), rank() and mean() do not depend on row order)
RECURSIVE SortedIdx(_, _, _)
SortedIdx(n, lo, hi) ==
    IF n = 0 THEN {<<>>}
    ELSE UNION {{<<k>> \o s : s \in SortedIdx(n - 1, k, hi)} : k \in lo..hi}

\* no automation script is running: the processor is driven directly
NoRun ==
    /\ script = "none"
    /\ args = <<>>
    /\ remote = {}
    /\ sheet_config = <<>>
    /\ calls = <<>>
    /\ results = <<>>
    /\ ret = <<>>
    /\ waits = <<>>

Init ==
    /\ variant \in {"base", "adapted"}
    /\ \E n \in 0..MaxRows :
         \E idx \in SortedIdx(n, 1, NumKinds(variant)) :
            raw_data = [i \in 1..n |-> Kind(variant, idx[i])]
    /\ data = <<>>
    /\ pc = "loaded"
    /\ processed_data = <<>>
    /\ stats = <<>>
    /\ NoRun

(* --------------------------- KPI Calculator ---------------------------- *)

\* mutant: the guard written den >= 0
WhereDivNonNegative(num, den, default) == IF den >= 0 THEN <<num, den>> ELSE default

\* np.where(den > 0, num / den, default)
WhereDiv(num, den, default) == IF den > 0 THEN <<num, den>> ELSE default

\* the five KPI columns both variants compute from a record's volumes
KpiColumns(r) ==
    [cpc |-> WhereDiv(r.cost, r.clicks, Zero),
     cpi |-> WhereDiv(r.cost, r.installs, Zero),
     ctr |-> WhereDiv(100 * r.clicks, r.impressions, Zero),
     d1_retained_cac |-> WhereDiv(r.cost, r.d1_retained_users, Inf),
     d1_retention_rate |-> WhereDiv(100 * r.d1_retained_users, r.installs, Zero)]

\* AppsflyerDataProcessor.calculate_kpis on one record: the numeric columns
\* are coerced first, then the KPI columns are added
CalculateKpisBase(r) ==
    LET num == [cost |-> ToNumeric(r.cost), installs |-> ToNumeric(r.installs),
                clicks |-> ToNumeric(r.clicks), impressions |-> ToNumeric(r.impressions),
                d1_retained_users |-> ToNumeric(r.d1_retained_users)] @@ r
    IN  KpiColumns(num) @@ num

\* AppsflyerDataProcessorAdapted.calculate_kpis on one (already cleaned) record
CalculateKpisAdapted(r) ==
    KpiColumns(r) @@
    [signup_rate |-> WhereDiv(100 * r.signups, r.installs, Zero),
     cost_per_signup |-> WhereDiv(r.cost, r.signups, Inf)] @@ r

(* ------------------------ Row Normalizer (base) ------------------------ *)

\* get_media_type
GetMediaType(source) ==
    IF Lower(source) \in TikTokSources THEN "tiktok"
    ELSE IF Lower(source) \in MetaSources THEN "meta"
    ELSE "other"

\* platform_mapping, with fillna('Unknown')
PlatformNormalized(platform) ==
    CASE Lower(platform) \in {"android", "aos"} -> "AOS"
      [] Lower(platform) = "ios" -> "iOS"
      [] OTHER -> "Unknown"

\* raw_data['media_source_normalized'] = raw_data['media_source'].str.lower()
NormalizeSource(rows) ==
    [i \in DOMAIN rows |-> [media_source_normalized |-> Lower(rows[i].media_source)] @@ rows[i]]

\* mutant: the allow-list misses the Meta sources
FilteredRowsTikTokOnly(rows) ==
    LET kept == SelectSeq(rows, LAMBDA r : r.media_source_normalized \in TikTokSources)
    IN  [i \in DOMAIN kept |-> [media_type |-> GetMediaType(kept[i].media_source_normalized)] @@ kept[i]]

\* the rows whose normalized source is on the allow-list, with media_type
FilteredRows(rows) ==
    LET kept == SelectSeq(rows, LAMBDA r : r.media_source_normalized \in TikTokSources \cup MetaSources)
    IN  [i \in DOMAIN kept |-> [media_type |-> GetMediaType(kept[i].media_source_normalized)] @@ kept[i]]

\* content_name joins campaign, adset and ad name; platform_normalized is the
\* standardized platform
MappedRows(rows) ==
    [i \in DOMAIN rows |->
       [content_name |-> <<rows[i].campaign_name, rows[i].adset_name>> \o rows[i].ad_name,
        platform_normalized |-> PlatformNormalized(rows[i].platform)] @@ rows[i]]

\* filter_target_media: raw_data gains media_source_normalized; the
\* allow-listed rows are kept
FilterTargetMedia ==
    /\ variant = "base"
    /\ pc = "loaded"
    /\ raw_data' = NormalizeSource(raw_data)
    /\ data' = FilteredRows(raw_data')
    /\ pc' = "filtered"
    /\ UNCHANGED <<runVars, variant, processed_data, stats>>

\* create_content_mapping
CreateContentMapping ==
    /\ variant = "base"
    /\ pc = "filtered"
    /\ data' = MappedRows(data)
    /\ pc' = "mapped"
    /\ UNCHANGED <<runVars, variant, raw_data, processed_data, stats>>

(* ----------------------------- Aggregator ------------------------------ *)

\* the strings of the grouping keys in ascending (code point) order
SortedStrings == <<"AOS", "Unknown", "a", "b", "c", "cmp", "iOS", "meta", "other", "set", "tiktok">>

Ord(s) == CHOOSE i \in DOMAIN SortedStrings : SortedStrings[i] = s

\* group_columns
GroupKey(r) == r.content_name \o <<r.media_type, r.platform_normalized>>

RECURSIVE KeyLess(_, _)
KeyLess(k1, k2) ==
    IF k1 = <<>> \/ k2 = <<>> THEN k1 = <<>> /\ k2 # <<>>
    ELSE IF Head(k1) = Head(k2) THEN KeyLess(Tail(k1), Tail(k2))
    ELSE Ord(Head(k1)) < Ord(Head(k2))

\* the keys of a groupby, in the sorted order groupby emits them
RECURSIVE SortKeys(_)
SortKeys(S) ==
    IF S = {} THEN <<>>
    ELSE LET m == CHOOSE k \in S : \A o \in S \ {k} : KeyLess(k, o)
         IN  <<m>> \o SortKeys(S \ {m})

\* mutant: the first row of the group stands for the group
GroupSumFirstRow(rows, key, col) ==
    LET members == SelectSeq(rows, LAMBDA r : GroupKey(r) = key)
    IN  ToNumeric(members[1][col])

\* groupby(...)[col].sum() of one group: NaN cells are skipped
GroupSum(rows, key, col) ==
    LET members == SelectSeq(rows, LAMBDA r : GroupKey(r) = key)
    IN  SumSeq([i \in DOMAIN members |-> ToNumeric(members[i][col])])

\* mutant: the groupby is forgotten, every row becomes a record
AggregateRowsUngrouped(rows) ==
    [i \in DOMAIN rows |->
       CalculateKpisBase(
         [content_name |-> rows[i].content_name,
          media_type |-> rows[i].media_type,
          platform_normalized |-> rows[i].platform_normalized,
          cost |-> rows[i].cost,
          installs |-> rows[i].installs,
          clicks |-> rows[i].clicks,
          impressions |-> rows[i].impressions,
          d1_retained_users |-> rows[i].d1_retained_users])]

\* aggregate_by_content: one record per key with summed volumes, then the KPIs
\* recomputed on the sums
AggregateRows(rows) ==
    LET keys == SortKeys({GroupKey(rows[i]) : i \in DOMAIN rows})
    IN  [g \in DOMAIN keys |->
           CalculateKpisBase(
             [content_name |-> SubSeq(keys[g], 1, Len(keys[g]) - 2),
              media_type |-> keys[g][Len(keys[g]) - 1],
              platform_normalized |-> keys[g][Len(keys[g])],
              cost |-> <<GroupSum(rows, keys[g], "cost")>>,
              installs |-> <<GroupSum(rows, keys[g], "installs")>>,
              clicks |-> <<GroupSum(rows, keys[g], "clicks")>>,
              impressions |-> <<GroupSum(rows, keys[g], "impressions")>>,
              d1_retained_users |-> <<GroupSum(rows, keys[g], "d1_retained_users")>>])]

AggregateByContent ==
    /\ variant = "base"
    /\ pc = "mapped"
    /\ data' = AggregateRows(data)
    /\ pc' = "aggregated"
    /\ UNCHANGED <<runVars, variant, raw_data, processed_data, stats>>

(* ---------------------- Row Normalizer (adapted) ----------------------- *)

\* the numeric columns become numbers
CleanedRows(rows) ==
    [i \in DOMAIN rows |->
       [cost |-> ToNumeric(rows[i].cost),
        impressions |-> ToNumeric(rows[i].impressions),
        clicks |-> ToNumeric(rows[i].clicks),
        installs |-> ToNumeric(rows[i].installs),
        signups |-> ToNumeric(rows[i].signups),
        d1_retained_users |-> ToNumeric(rows[i].d1_retained_users)] @@ rows[i]]

\* clean_and_normalize_columns
CleanAndNormalizeColumns ==
    /\ variant = "adapted"
    /\ pc = "loaded"
    /\ data' = CleanedRows(raw_data)
    /\ pc' = "cleaned"
    /\ UNCHANGED <<runVars, variant, raw_data, processed_data, stats>>

\* 'kw' in ad_name_lower, on the words of the ad name
Has(ad_name, kw) == \E i \in DOMAIN ad_name : Lower(ad_name[i]) = kw

\* extract_info
ExtractInfo(ad_name) ==
    IF ad_name = <<>> THEN
        [media_type |-> "unknown", content_theme |-> "unknown",
         creative_type |-> "unknown", platform |-> "unknown"]
    ELSE
        [media_type |->
            IF Has(ad_name, "ttcx") \/ Has(ad_name, "tiktok") THEN "tiktok"
            ELSE IF Has(ad_name, "meta") \/ Has(ad_name, "facebook") \/ Has(ad_name, "instagram")
                 THEN "meta"
            ELSE IF Has(ad_name, "echo") THEN "echo"
            ELSE IF Has(ad_name, "spoon") THEN "spoon"
            ELSE IF Has(ad_name, "innoceans") THEN "innoceans"
            ELSE "unknown",
         content_theme |->
            IF Has(ad_name, "participation") THEN "participation"
            ELSE IF Has(ad_name, "blinddate") THEN "blinddate"
            ELSE IF Has(ad_name, "interest") THEN "interest"
            ELSE IF Has(ad_name, "tpo") THEN "tpo"
            ELSE "general",
         creative_type |->
            IF Has(ad_name, "vdo") \/ Has(ad_name, "video") THEN "video"
            ELSE IF Has(ad_name, "img") \/ Has(ad_name, "image") THEN "image"
            ELSE "video",
         platform |-> "mixed"]

\* the four inferred columns, and content_name = ad_name
ExtractedRows(rows) ==
    [i \in DOMAIN rows |->
       [content_name |-> rows[i].ad_name] @@ ExtractInfo(rows[i].ad_name) @@ rows[i]]

\* extract_campaign_info_from_ad_name
ExtractCampaignInfoFromAdName ==
    /\ variant = "adapted"
    /\ pc = "cleaned"
    /\ data' = ExtractedRows(data)
    /\ pc' = "extracted"
    /\ UNCHANGED <<runVars, variant, raw_data, processed_data, stats>>

\* process() step 4 of the adapted variant: KPIs per row, no grouping
CalculateKpis ==
    /\ variant = "adapted"
    /\ pc = "extracted"
    /\ data' = [i \in DOMAIN data |-> CalculateKpisAdapted(data[i])]
    /\ pc' = "kpi"
    /\ UNCHANGED <<runVars, variant, raw_data, processed_data, stats>>

(* ---------------------------- Ranker/Grader ---------------------------- *)

\* the columns of a table
Columns(tbl) == IF tbl = <<>> THEN {} ELSE DOMAIN tbl[1]

\* mutant: infinity replaced by 0
ReplaceInfByZero(r) ==
    [d1_retained_cac_for_rank |->
        IF IsInf(r.d1_retained_cac) THEN Zero ELSE r.d1_retained_cac] @@ r

\* mutant: the replacement written back into d1_retained_cac itself
ReplaceInfInPlace(r) ==
    LET x == IF IsInf(r.d1_retained_cac) THEN <<Sentinel, 1>> ELSE r.d1_retained_cac
    IN  [d1_retained_cac_for_rank |-> x, d1_retained_cac |-> x] @@ r

\* Series.replace([np.inf, -np.inf], 9999999) into the new column
\* d1_retained_cac_for_rank
ReplaceInf(r) ==
    [d1_retained_cac_for_rank |->
        IF IsInf(r.d1_retained_cac) THEN <<Sentinel, 1>> ELSE r.d1_retained_cac] @@ r

\* mutant: method='min'
RankMin(S, v, i, asc) ==
    LET before == {j \in S : IF asc THEN Lt(v[j], v[i]) ELSE Lt(v[i], v[j])}
    IN  2 * (Cardinality(before) + 1)

\* mutant: method='first'
RankFirst(S, v, i, asc) ==
    LET before == {j \in S : IF asc THEN Lt(v[j], v[i]) ELSE Lt(v[i], v[j])}
        ties == {j \in S : Eq(v[j], v[i]) /\ j <= i}
    IN  2 * (Cardinality(before) + Cardinality(ties))

\* mutant: the ascending flag is ignored
RankAscendingOnly(S, v, i, asc) ==
    LET before == {j \in S : Lt(v[j], v[i])}
        ties == {j \in S : Eq(v[j], v[i])}
    IN  2 * Cardinality(before) + Cardinality(ties) + 1

\* Series.rank(ascending=asc), method='average', of element i among the
\* elements S of v, doubled: the mean of the positions the ties of v[i] occupy
Rank(S, v, i, asc) ==
    LET before == {j \in S : IF asc THEN Lt(v[j], v[i]) ELSE Lt(v[i], v[j])}
        ties == {j \in S : Eq(v[j], v[i])}
    IN  2 * Cardinality(before) + Cardinality(ties) + 1

Column(tbl, col) == [i \in DOMAIN tbl |-> tbl[i][col]]

\* the records ranked together with record i on d1_retained_cac in the base
\* variant: groupby(['media_type', 'platform_normalized']) when both exist
RankGroup(tbl, i) ==
    IF {"media_type", "platform_normalized"} \subseteq Columns(tbl)
    THEN {j \in DOMAIN tbl : /\ tbl[j].media_type = tbl[i].media_type
                             /\ tbl[j].platform_normalized = tbl[i].platform_normalized}
    ELSE DOMAIN tbl

\* rank_d1_cac, and rank_cpi / rank_cpc / rank_ctr for the KPI columns present
RankColumnsBase(tbl) ==
    LET t == [i \in DOMAIN tbl |-> ReplaceInf(tbl[i])]
        all == DOMAIN tbl
    IN  [i \in DOMAIN tbl |->
           [rank_d1_cac |-> Rank(RankGroup(t, i), Column(t, "d1_retained_cac_for_rank"), i, TRUE)]
           @@ (IF "cpi" \in Columns(t)
               THEN [rank_cpi |-> Rank(all, Column(t, "cpi"), i, TRUE)] ELSE <<>>)
           @@ (IF "cpc" \in Columns(t)
               THEN [rank_cpc |-> Rank(all, Column(t, "cpc"), i, TRUE)] ELSE <<>>)
           @@ (IF "ctr" \in Columns(t)
               THEN [rank_ctr |-> Rank(all, Column(t, "ctr"), i, FALSE)] ELSE <<>>)
           @@ t[i]]

\* the four rank columns of the adapted variant, all over the whole table
RankColumnsAdapted(tbl) ==
    LET t == [i \in DOMAIN tbl |-> ReplaceInf(tbl[i])]
        all == DOMAIN tbl
    IN  [i \in DOMAIN tbl |->
           [rank_d1_cac |-> Rank(all, Column(t, "d1_retained_cac_for_rank"), i, TRUE),
            rank_cpi |-> Rank(all, Column(t, "cpi"), i, TRUE),
            rank_cpc |-> Rank(all, Column(t, "cpc"), i, TRUE),
            rank_ctr |-> Rank(all, Column(t, "ctr"), i, FALSE)] @@ t[i]]

\* sum(ranked_data[col] * weight for the rank columns in cols), on doubled
\* ranks and weights in hundredths
WeightedRanks(r, weights, cols) ==
    SumSeq([k \in DOMAIN RankCols |->
              IF RankCols[k] \in cols THEN r[RankCols[k]] * weights[RankCols[k]] ELSE 0])

\* total_weight = sum(available_ranks.values())
TotalWeight(weights, cols) ==
    SumSeq([k \in DOMAIN RankCols |-> IF RankCols[k] \in cols THEN weights[RankCols[k]] ELSE 0])

\* mutant: the division by total_weight is dropped
CompositeBaseUnnormalised(r) ==
    LET cols == {c \in DOMAIN r : \E k \in DOMAIN RankCols : RankCols[k] = c}
    IN  <<WeightedRanks(r, WeightsBase, cols), 200>>

\* composite_score of the base variant: the weighted ranks of the rank
\* columns present, divided by the sum of their weights
CompositeBase(r) ==
    LET cols == {c \in DOMAIN r : \E k \in DOMAIN RankCols : RankCols[k] = c}
    IN  <<WeightedRanks(r, WeightsBase, cols), 2 * TotalWeight(WeightsBase, cols)>>

\* composite_score of the adapted variant: the plain weighted sum
CompositeAdapted(r) ==
    <<WeightedRanks(r, WeightsAdapted, {"rank_d1_cac", "rank_cpi", "rank_cpc", "rank_ctr"}), 200>>

\* bins=[0, 0.2 N, 0.5 N, 0.8 N, N], in tenths
Bins(n) == <<0, 2 * n, 5 * n, 8 * n, 10 * n>>

Labels == <<"A", "B", "C", "D">>

\* mutant: right=False, bins closed on the left
CutLeftClosed(rank2, bins) ==
    LET x == 5 * rank2
        hit == {b \in 1..4 : bins[b] <= x /\ x < bins[b + 1]}
    IN  IF hit = {} THEN "NaN" ELSE Labels[CHOOSE b \in hit : TRUE]

\* pd.cut(x, bins, labels, include_lowest=True) for x = rank2 / 2, in tenths:
\* the label of the right-closed bin holding x, NaN when no bin holds it
Cut(rank2, bins) ==
    LET x == 5 * rank2
        hit == {b \in 1..4 : \/ bins[b] < x /\ x <= bins[b + 1]
                             \/ b = 1 /\ x = bins[1]}
    IN  IF hit = {} THEN "NaN" ELSE Labels[CHOOSE b \in hit : TRUE]

\* pd.cut raises ValueError when the bin edges are not unique (no records)
CutRaises(bins) == \E b \in 1..4 : bins[b] >= bins[b + 1]

\* composite_score, overall_rank and performance_grade added to a table
\* that carries its rank columns
Grade(v, tbl) ==
    LET t == [i \in DOMAIN tbl |->
                [composite_score |-> IF v = "base" THEN CompositeBase(tbl[i])
                                     ELSE CompositeAdapted(tbl[i])] @@ tbl[i]]
    IN  [i \in DOMAIN t |->
           LET overall == Rank(DOMAIN t, Column(t, "composite_score"), i, TRUE)
           IN  [overall_rank |-> overall,
                performance_grade |-> Cut(overall, Bins(Len(t)))] @@ t[i]]

\* AppsflyerDataProcessor.rank_content_performance
RankContentPerformanceBase(tbl) == Grade("base", RankColumnsBase(tbl))

\* AppsflyerDataProcessorAdapted.rank_content_performance
RankContentPerformanceAdapted(tbl) == Grade("adapted", RankColumnsAdapted(tbl))

\* the adapted variant reads cpi, cpc and ctr unconditionally (KeyError when
\* one is missing); with no record pd.cut raises in both variants
RankRaises(v, tbl) ==
    \/ CutRaises(Bins(Len(tbl)))
    \/ v = "adapted" /\ ~({"cpi", "cpc", "ctr"} \subseteq Columns(tbl))

\* process() step 7 of the base variant, step 5 of the adapted variant; an
\* exception of rank_content_performance fails process()
RankContentPerformance ==
    /\ \/ variant = "base" /\ pc = "aggregated"
       \/ variant = "adapted" /\ pc = "kpi"
    /\ IF RankRaises(variant, data)
       THEN /\ pc' = "failed"
            /\ UNCHANGED processed_data
       ELSE /\ pc' = "ranked"
            /\ processed_data' = IF variant = "base" THEN RankContentPerformanceBase(data)
                                 ELSE RankContentPerformanceAdapted(data)
    /\ UNCHANGED <<runVars, variant, raw_data, data, stats>>

(* --------------------------- Summary Builder --------------------------- *)

\* a/b + c/d in lowest terms
AddFrac(x, y) ==
    LET n == x[1] * y[2] + y[1] * x[2]
        d == x[2] * y[2]
        g == Gcd(n, d)
    IN  <<n \div g, d \div g>>

RECURSIVE SumFrac(_)
SumFrac(s) == IF s = <<>> THEN Zero ELSE AddFrac(Head(s), SumFrac(Tail(s)))

\* the mean of an empty Series
NaN == [q |-> 0, n |-> 0, d |-> 0]

\* Series.mean() of finite fractions, as the mixed number q + n/d in lowest
\* terms with 0 <= n/d < 1
Mean(s) ==
    IF s = <<>> THEN NaN
    ELSE LET k == Len(s)
             whole == SumSeq([i \in DOMAIN s |-> s[i][1] \div s[i][2]])
             part == SumFrac([i \in DOMAIN s |-> <<s[i][1] % s[i][2], s[i][2]>>])
             num == (whole % k) * part[2] + part[1]
             den == k * part[2]
             g == Gcd(num % den, den)
         IN  [q |-> (whole \div k) + (num \div den), n |-> (num % den) \div g, d |-> den \div g]

\* the mask of AppsflyerDataProcessor.get_summary_stats: d1_retained_cac != np.inf
ValidCacBase(r) == ~IsInf(r.d1_retained_cac)

\* the mask of AppsflyerDataProcessorAdapted.get_summary_stats:
\* (d1_retained_cac != np.inf) & (d1_retained_cac > 0)
ValidCacAdapted(r) == ~IsInf(r.d1_retained_cac) /\ Lt(Zero, r.d1_retained_cac)

\* avg_d1_retained_cac
AvgD1RetainedCac(v, tbl) ==
    IF v = "base"
    THEN Mean(Column(SelectSeq(tbl, ValidCacBase), "d1_retained_cac"))
    ELSE LET valid_d1_cac == Column(SelectSeq(tbl, ValidCacAdapted), "d1_retained_cac")
         IN  IF Len(valid_d1_cac) > 0 THEN Mean(valid_d1_cac) ELSE [q |-> 0, n |-> 0, d |-> 1]

\* get_summary_stats: the totals and the CAC mean of the ranked table
SummaryStats(v, tbl) ==
    [total_contents |-> Len(tbl),
     total_cost |-> SumSeq(Column(tbl, "cost")),
     total_installs |-> SumSeq(Column(tbl, "installs")),
     avg_d1_retained_cac |-> AvgD1RetainedCac(v, tbl)]

GetSummaryStats ==
    /\ pc = "ranked"
    /\ stats' = SummaryStats(variant, processed_data)
    /\ pc' = "summarised"
    /\ UNCHANGED <<runVars, variant, raw_data, data, processed_data>>

(* --------------------------- specification ----------------------------- *)

Next ==
    \/ FilterTargetMedia
    \/ CreateContentMapping
    \/ AggregateByContent
    \/ CleanAndNormalizeColumns
    \/ ExtractCampaignInfoFromAdName
    \/ CalculateKpis
    \/ RankContentPerformance
    \/ GetSummaryStats

Spec == Init /\ [][Next]_vars

(* ---- rank_content_performance called directly on a table of records ---- *)

\* Largest number of input rows behind a table handed directly to the Ranker.
MaxRankRows == 3

\* DataFrame.drop(columns=cols)
Drop(tbl, cols) == [i \in DOMAIN tbl |-> [c \in (DOMAIN tbl[i]) \ cols |-> tbl[i][c]]]

\* a table as the stages before the Ranker produce it from the rows of a file
TableOf(v, rows) ==
    IF v = "base"
    THEN AggregateRows(MappedRows(FilteredRows(NormalizeSource(rows))))
    ELSE LET t == ExtractedRows(CleanedRows(rows))
         IN  [i \in DOMAIN t |-> CalculateKpisAdapted(t[i])]

\* the caller hands over a table, possibly without some of the optional KPI
\* columns cpi, cpc, ctr
InitRank ==
    /\ variant \in {"base", "adapted"}
    /\ \E n \in 0..MaxRankRows :
         \E idx \in SortedIdx(n, 1, NumKinds(variant)) :
            \E tbl \in {TableOf(variant, [i \in 1..n |-> Kind(variant, idx[i])])} :
               \E missing \in SUBSET {"cpi", "cpc", "ctr"} :
                  data = Drop(tbl, missing)
    /\ raw_data = <<>>
    /\ pc = IF variant = "base" THEN "aggregated" ELSE "kpi"
    /\ processed_data = <<>>
    /\ stats = <<>>
    /\ NoRun

NextRank ==
    \/ RankContentPerformance
    \/ GetSummaryStats

SpecRank == InitRank /\ [][NextRank]_vars

(* ------------------ Transport: the retry decorator --------------------- *)

\* @retry_on_failure(max_retries=3, delay=1.0) on every method of
\* RobustGoogleSheetsClient
MaxRetries == 3

\* delay, in seconds
Delay == 1

\* the methods RobustGoogleSheetsClient decorates
RobustMethods ==
    {"read_sheet", "update_range", "append_rows", "overwrite_sheet", "clear_sheet",
     "create_sheet", "get_sheet_names"}

\* what a method of GoogleSheetsClient can return: the remote payload (with or
\* without success, with or without an error message) or the error
\* dictionary built for a failed request
TransportResults ==
    { [success |-> TRUE],
      [success |-> FALSE],
      [success |-> FALSE, error |-> "Rate limit exceeded"],
      [error |-> "Request failed: 429 Too Many Requests"],
      [error |-> "Request failed: connection refused"] }

\* mutant: a payload without success is taken for an error as well
HasErrorOrNoSuccess(result) == "error" \in DOMAIN result \/ ~result.success

\* 'error' in result
HasError(result) == "error" \in DOMAIN result

\* '429' in str(error_msg) or 'rate' in str(error_msg).lower()
IsRateLimit(error_msg) ==
    error_msg \in {"Rate limit exceeded", "Request failed: 429 Too Many Requests"}

RECURSIVE Pow(_, _)
Pow(b, e) == IF e = 0 THEN 1 ELSE b * Pow(b, e - 1)

\* result.get('error', '')
ErrorMsg(result) == IF "error" \in DOMAIN result THEN result.error ELSE ""

\* mutant: the generic schedule for every error
WaitTimeGeneric(result, delay, attempt) == delay * Pow(2, attempt)

\* wait_time of the attempt-th attempt (counted from 0)
WaitTime(result, delay, attempt) ==
    IF IsRateLimit(ErrorMsg(result)) THEN delay * Pow(3, attempt) + 2
    ELSE delay * Pow(2, attempt)

\* a call of a decorated method starts: nothing has been tried yet
\* the base delays of the decorator, in seconds: the one every decorated
\* method uses, and its double
Delays == {Delay, 2 * Delay}

InitRetry ==
    /\ variant = "none"
    /\ raw_data = <<>>
    /\ data = <<>>
    /\ processed_data = <<>>
    /\ stats = <<>>
    /\ script = "none"
    /\ args \in {[method |-> m, max_retries |-> MaxRetries, delay |-> d] :
                    m \in RobustMethods, d \in Delays}
    /\ remote = {}
    /\ sheet_config = <<>>
    /\ calls = <<>>
    /\ results = <<>>
    /\ ret = <<>>
    /\ waits = <<>>
    /\ pc = "calling"

\* one iteration of `for attempt in range(max_retries)`: the wrapped method
\* is called; a result without 'error' is returned at once; otherwise the
\* wrapper sleeps and goes on, or returns the result on the last attempt
RetryAttempt ==
    /\ pc = "calling"
    /\ Len(calls) < args.max_retries
    /\ \E result \in TransportResults :
         LET attempt == Len(calls)
             sleeps == HasError(result) /\ attempt < args.max_retries - 1
         IN  /\ calls' = Append(calls, [op |-> args.method, result |-> result])
             /\ waits' = IF sleeps THEN Append(waits, WaitTime(result, args.delay, attempt))
                         ELSE waits
             /\ IF sleeps /\ attempt + 1 < args.max_retries
                THEN UNCHANGED <<pc, ret>>
                ELSE pc' = "returned" /\ ret' = <<result>>
    /\ UNCHANGED <<variant, raw_data, data, processed_data, stats, script, args, remote,
                   sheet_config, results>>

NextRetry == RetryAttempt

SpecRetry == InitRetry /\ [][NextRetry]_vars

(* -------------------- Publisher: sheet name detection ------------------- *)
(* Sheet names are written in Latin letters: Siteu1, Mein, Deiteo, Yoyak,   *)
(* Bunseok, MeinDeiteo, SangwiSeonggwa, PibeosTeibeul and the suffixes      *)
(* _Yoyak, _SangwiSeonggwa, _Pibeos stand for the Korean names of the      *)
(* source.                                                                  *)

\* priority_sheet_names
PrioritySheetNames == <<"Siteu1", "Sheet1", "Sheet 1">>

\* additional_sheet_names
AdditionalSheetNames ==
    <<"Main", "Mein", "Data", "Deiteo", "Summary", "Yoyak", "Bunseok",
      "MeinDeiteo", "SangwiSeonggwa", "PibeosTeibeul">>

\* GoogleSheetsClient.read_sheet: the payload of the remote script when the
\* request gets through, the error dictionary when it does not
ReadSheet(sheet_name, net) ==
    IF net = "down" THEN [error |-> "Request failed: connection refused"]
    ELSE IF sheet_name \in remote THEN [success |-> TRUE]
    ELSE [success |-> FALSE, error |-> "Worksheet not found"]

\* result.get('success') or 'Worksheet not found' not in result.get('error', '')
CountsAsAvailable(result) ==
    \/ "success" \in DOMAIN result /\ result.success
    \/ ErrorMsg(result) # "Worksheet not found"

\* the priority loop: names are read in order up to the first one that
\* counts as available
RECURSIVE ScanPriority(_, _)
ScanPriority(names, net) ==
    IF names = <<>> THEN [reads |-> <<>>, found |-> <<>>]
    ELSE IF CountsAsAvailable(ReadSheet(Head(names), net))
         THEN [reads |-> <<Head(names)>>, found |-> <<Head(names)>>]
         ELSE LET rest == ScanPriority(Tail(names), net)
              IN  [reads |-> <<Head(names)>> \o rest.reads, found |-> rest.found]

\* get_available_sheets: the names read and the names found
GetAvailableSheets(net) ==
    LET first == ScanPriority(PrioritySheetNames, net)
    IN  IF first.found # <<>> THEN first
        ELSE [reads |-> first.reads \o AdditionalSheetNames,
              found |-> SelectSeq(AdditionalSheetNames,
                                  LAMBDA n : CountsAsAvailable(ReadSheet(n, net)))]

\* the purposes whose keywords occur in sheet_name.lower()
Purposes(sheet_name) ==
    CASE sheet_name \in {"Siteu1", "Sheet1", "Main", "Mein", "Data", "Deiteo", "MeinDeiteo"}
           -> {"main_data"}
      [] sheet_name \in {"Summary", "Yoyak", "Bunseok"} -> {"summary"}
      [] sheet_name = "SangwiSeonggwa" -> {"top_performers"}
      [] sheet_name = "PibeosTeibeul" -> {"pivot_table"}
      [] OTHER -> {}

\* create_smart_mapping: each purpose takes the first available sheet that
\* matches it, and the first available sheet (or 'Sheet1') when none does
CreateSmartMapping(available) ==
    LET main_sheet == IF available # <<>> THEN available[1] ELSE "Sheet1"
    IN  [purpose \in {"main_data", "summary", "top_performers", "pivot_table"} |->
           LET matching == SelectSeq(available, LAMBDA n : purpose \in Purposes(n))
           IN  IF matching # <<>> THEN matching[1] ELSE main_sheet]

\* get_recommended_config
GetRecommendedConfig(available) ==
    LET mapping == CreateSmartMapping(available)
    IN  [main_data_sheet |-> mapping["main_data"],
         summary_sheet |->
            IF mapping["summary"] # mapping["main_data"] THEN mapping["summary"]
            ELSE mapping["main_data"] \o "_Yoyak",
         top_performers_sheet |->
            IF mapping["top_performers"] # mapping["main_data"] THEN mapping["top_performers"]
            ELSE mapping["main_data"] \o "_SangwiSeonggwa",
         pivot_table_sheet |->
            IF mapping["pivot_table"] # mapping["main_data"] THEN mapping["pivot_table"]
            ELSE mapping["main_data"] \o "_Pibeos"]

\* the reads of detect_sheets_auto: get_recommended_config reads the sheets,
\* and create_smart_mapping reads them again when none was found
DetectionReads(net) ==
    LET pass == GetAvailableSheets(net)
        names == IF pass.found = <<>> THEN pass.reads \o pass.reads ELSE pass.reads
    IN  [i \in DOMAIN names |->
           [op |-> "read_sheet", sheet |-> names[i], result |-> ReadSheet(names[i], net)]]

(* ------------------------- the automation scripts ----------------------- *)

\* Largest number of data rows in the CSV file of a run.
MaxRunRows == 1

\* appsflyer_automation.py, appsflyer_automation_real.py and
\* appsflyer_automation_formula.py
Scripts == {"automation", "real", "formula"}

\* the processor each script imports
ProcessorOf(s) == IF s = "automation" THEN "base" ELSE "adapted"

\* the file behind csv_path: absent, present but not loadable, present and
\* loadable; '--sample' makes appsflyer_automation.py write a sample file
CsvStates(s) ==
    {"missing", "unreadable", "ok"} \cup (IF s = "automation" THEN {"--sample"} ELSE {})

\* the kinds of row a run's file is made of: one the pipeline keeps, and the
\* last kind (dropped by the allow-list of the base variant)
RunKinds(v) == {1, NumKinds(v)}

\* create_sample_data: rows of two allow-listed sources with positive volumes
SampleData == <<Kind("base", 1), Kind("base", 9)>>

\* the sheets of the remote spreadsheet
RemoteSheets ==
    { {}, {"Sheet1"}, {"MeinDeiteo", "Yoyak", "SangwiSeonggwa", "PibeosTeibeul"},
      {"Summary", "MeinDeiteo"} }

InitRun ==
    /\ script \in Scripts
    /\ variant = ProcessorOf(script)
    /\ args \in [env_ok : BOOLEAN, csv : CsvStates(script), backup : BOOLEAN,
                 export_csv : BOOLEAN]
    /\ IF args.csv = "ok"
       THEN \E n \in 0..MaxRunRows :
              \E idx \in SortedIdx(n, 1, NumKinds(variant)) :
                 /\ \A i \in 1..n : idx[i] \in RunKinds(variant)
                 /\ raw_data = [i \in 1..n |-> Kind(variant, idx[i])]
       ELSE raw_data = <<>>
    /\ remote \in RemoteSheets
    /\ data = <<>>
    /\ processed_data = <<>>
    /\ stats = <<>>
    /\ sheet_config = <<>>
    /\ calls = <<>>
    /\ results = <<>>
    /\ ret = <<>>
    /\ waits = <<>>
    /\ pc = "start"

\* run() leaves through `return False`, directly or from its except clause
ReturnFalse ==
    /\ pc' = "returned"
    /\ ret' = <<FALSE>>

\* validate_environment, and run() step 1
ValidateEnvironment ==
    /\ pc = "start"
    /\ IF args.env_ok THEN pc' = "validated" /\ UNCHANGED ret ELSE ReturnFalse
    /\ UNCHANGED <<variant, raw_data, data, processed_data, stats, script, args, remote,
                   sheet_config, calls, results, waits>>

\* os.path.exists(csv_path) fails, or load_csv raises
LoadRaises(csv) == csv \in {"missing", "unreadable"}

\* the rows process() loads
LoadedRows(csv, rows) == IF csv = "--sample" THEN SampleData ELSE rows

\* process_data: the file is checked and loaded, process() and
\* get_summary_stats() run; any exception is re-raised to run()
ProcessData ==
    /\ pc = "validated"
    /\ IF LoadRaises(args.csv) \/
          RankRaises(variant, TableOf(variant, LoadedRows(args.csv, raw_data)))
       THEN /\ ReturnFalse
            /\ UNCHANGED <<raw_data, processed_data, stats>>
       ELSE \E tbl \in {TableOf(variant, LoadedRows(args.csv, raw_data))} :
              /\ raw_data' = LoadedRows(args.csv, raw_data)
              /\ processed_data' = IF variant = "base" THEN RankContentPerformanceBase(tbl)
                                   ELSE RankContentPerformanceAdapted(tbl)
              /\ stats' = SummaryStats(variant, processed_data')
              /\ pc' = "processed"
              /\ UNCHANGED ret
    /\ UNCHANGED <<variant, data, script, args, remote, sheet_config, calls, results, waits>>

(* ------------------------------ Publisher ------------------------------- *)

\* session.get / session.post are called without a timeout: a request that
\* is never answered never returns, and the run stays blocked in the call
Pending == [pending |-> TRUE]

\* what overwrite_sheet of the plain GoogleSheetsClient returns
WriteResults ==
    { [success |-> TRUE],
      [success |-> FALSE, error |-> "Rate limit exceeded"],
      [error |-> "Request failed: connection refused"] }

\* result.get('success')
Succeeded(result) == "success" \in DOMAIN result /\ result.success

\* mutant: the updater is built as soon as the environment is validated
UpdaterBuiltBeforeProcessing(p) == p \in {"validated", "processed"}

\* run() builds the updater in update_sheets, after process_data returned
UpdaterBuilt(p) == p = "processed"

\* SheetsUpdater.__init__ (also of the formula-based subclass): a plain
\* GoogleSheetsClient is created and the sheet names are detected by reading
InitUpdater ==
    /\ UpdaterBuilt(pc)
    /\ \E net \in {"up", "down", "hang"} :
         IF net = "hang"
         THEN /\ calls' = Append(calls, [op |-> "read_sheet", sheet |-> PrioritySheetNames[1],
                                         result |-> Pending])
              /\ pc' = "blocked"
              /\ UNCHANGED sheet_config
         ELSE /\ calls' = calls \o DetectionReads(net)
              /\ sheet_config' = GetRecommendedConfig(GetAvailableSheets(net).found)
              /\ pc' = "updater"
    /\ UNCHANGED <<variant, raw_data, data, processed_data, stats, script, args, remote,
                   results, ret, waits>>

\* the name of the backup sheet (the time stamp is left out)
BackupSheetName == "Baegeop"

\* backup_current_data, called by update_sheets when backup is set: the main
\* sheet is read and, if that succeeded, written to the backup sheet; a
\* failed backup is only printed
BackupCurrentData ==
    /\ pc = "updater"
    /\ args.backup
    /\ \E net \in {"up", "down", "hang"} :
         LET read == [op |-> "read_sheet", sheet |-> sheet_config.main_data_sheet,
                      result |-> IF net = "hang" THEN Pending
                                 ELSE ReadSheet(sheet_config.main_data_sheet, net)]
         IN  IF net = "hang"
             THEN calls' = Append(calls, read) /\ pc' = "blocked"
             ELSE IF ~Succeeded(read.result)
             THEN calls' = Append(calls, read) /\ pc' = "backed_up"
             ELSE \E r \in WriteResults \cup {Pending} :
                    /\ calls' = calls \o <<read, [op |-> "overwrite_sheet",
                                                  sheet |-> BackupSheetName, result |-> r]>>
                    /\ pc' = IF r = Pending THEN "blocked" ELSE "backed_up"
    /\ UNCHANGED <<variant, raw_data, data, processed_data, stats, script, args, remote,
                   sheet_config, results, ret, waits>>

\* the body shared by the update_*_sheet methods: one overwrite_sheet call;
\* on success a fresh success result, otherwise the client's result as it is
OverwriteAndRecord(sheet_type, sheet_name, done) ==
    \E r \in WriteResults \cup {Pending} :
       /\ calls' = Append(calls, [op |-> "overwrite_sheet", sheet |-> sheet_name, result |-> r])
       /\ IF r = Pending
          THEN pc' = "blocked" /\ UNCHANGED results
          ELSE /\ results' = Append(results,
                     [sheet_type |-> sheet_type,
                      result |-> IF Succeeded(r) THEN [success |-> TRUE] ELSE r])
               /\ pc' = done

\* mutant: the sheets are updated without waiting for the backup
UpdateMainDataSheetBeforeBackup ==
    /\ pc \in {"updater", "backed_up"}
    /\ IF processed_data = <<>>
       THEN /\ results' = Append(results, [sheet_type |-> "main_data",
                                           result |-> [success |-> FALSE, error |-> "no data"]])
            /\ pc' = "main_data"
            /\ UNCHANGED calls
       ELSE OverwriteAndRecord("main_data", sheet_config.main_data_sheet, "main_data")
    /\ UNCHANGED <<variant, raw_data, data, processed_data, stats, script, args, remote,
                   sheet_config, ret, waits>>

\* update_main_data_sheet, the first step of update_all_sheets and of
\* update_all_sheets_with_formulas: an empty table is reported without a call
UpdateMainDataSheet ==
    /\ \/ pc = "updater" /\ ~args.backup
       \/ pc = "backed_up"
    /\ IF processed_data = <<>>
       THEN /\ results' = Append(results, [sheet_type |-> "main_data",
                                           result |-> [success |-> FALSE, error |-> "no data"]])
            /\ pc' = "main_data"
            /\ UNCHANGED calls
       ELSE OverwriteAndRecord("main_data", sheet_config.main_data_sheet, "main_data")
    /\ UNCHANGED <<variant, raw_data, data, processed_data, stats, script, args, remote,
                   sheet_config, ret, waits>>

\* FormulaBasedSheetsUpdater calls self.ensure_sheet_exists, which neither it
\* nor SheetsUpdater defines: the call raises AttributeError outside the
\* method's try block
EnsureSheetExistsRaises == TRUE

\* update_summary_sheet / update_top_performers_sheet / update_pivot_sheet
\* and their *_with_formulas counterparts, as update_all_sheets(_with_formulas)
\* calls them; an exception leaves update_sheets and run() returns False
UpdateSheet(sheet_type, sheet_name, done) ==
    /\ IF script = "formula" /\ EnsureSheetExistsRaises
       THEN ReturnFalse /\ UNCHANGED <<calls, results>>
       ELSE OverwriteAndRecord(sheet_type, sheet_name, done) /\ UNCHANGED ret
    /\ UNCHANGED <<variant, raw_data, data, processed_data, stats, script, args, remote,
                   sheet_config, waits>>

UpdateSummarySheet ==
    /\ pc = "main_data"
    /\ UpdateSheet("summary", sheet_config.summary_sheet, "summary")

UpdateTopPerformersSheet ==
    /\ pc = "summary"
    /\ UpdateSheet("top_performers", sheet_config.top_performers_sheet, "top_performers")

UpdatePivotSheet ==
    /\ pc = "top_performers"
    /\ UpdateSheet("pivot_table", sheet_config.pivot_table_sheet, "published")

\* all(result.get('success', False) for result in results.values())
OverallSuccess(individual_results) ==
    \A i \in DOMAIN individual_results : Succeeded(individual_results[i].result)

\* run() after update_sheets: the optional export_to_csv, which may raise,
\* the printed summary, and `return True`
FinishRun ==
    /\ pc = "published"
    /\ pc' = "returned"
    /\ \E export_raises \in (IF args.export_csv THEN BOOLEAN ELSE {FALSE}) :
         ret' = <<~export_raises>>
    /\ UNCHANGED <<variant, raw_data, data, processed_data, stats, script, args, remote,
                   sheet_config, calls, results, waits>>

NextRun ==
    \/ ValidateEnvironment
    \/ ProcessData
    \/ InitUpdater
    \/ BackupCurrentData
    \/ UpdateMainDataSheet
    \/ UpdateSummarySheet
    \/ UpdateTopPerformersSheet
    \/ UpdatePivotSheet
    \/ FinishRun

SpecRun == InitRun /\ [][NextRun]_vars

(* ------------------------------ properties ----------------------------- *)

Ranked == pc \in {"ranked", "summarised"}

Recs == DOMAIN processed_data

\* x is the finite number num / den
RatioIs(x, num, den) == x[2] > 0 /\ x[1] * den = num * x[2]

ZeroDenominatorYieldsZero(x, num, den) ==
    /\ den > 0 => RatioIs(x, num, den)
    /\ den = 0 => x[2] > 0 /\ x[1] = 0

ZeroDenominatorYieldsInfinity(x, num, den) ==
    /\ den > 0 => RatioIs(x, num, den)
    /\ den = 0 => x[2] = 0 /\ x[1] > 0

\* C1: every record that calculate_kpis has processed, in either variant, has
\* cpc = cost/clicks, cpi = cost/installs, ctr = 100*clicks/impressions and
\* d1_retention_rate = 100*d1_retained_users/installs when the denominator is
\* positive and exactly 0 when it is 0, while d1_retained_cac (and
\* cost_per_signup in the adapted variant) is +infinity on a zero denominator.
C1_KpiZeroDenominatorPolicy ==
    pc \in {"aggregated", "kpi"} =>
        \A i \in DOMAIN data :
            LET r == data[i]
            IN  /\ ZeroDenominatorYieldsZero(r.cpc, r.cost, r.clicks)
                /\ ZeroDenominatorYieldsZero(r.cpi, r.cost, r.installs)
                /\ ZeroDenominatorYieldsZero(r.ctr, 100 * r.clicks, r.impressions)
                /\ ZeroDenominatorYieldsZero(r.d1_retention_rate, 100 * r.d1_retained_users, r.installs)
                /\ ZeroDenominatorYieldsInfinity(r.d1_retained_cac, r.cost, r.d1_retained_users)
                /\ variant = "adapted" =>
                      ZeroDenominatorYieldsInfinity(r.cost_per_signup, r.cost, r.signups)

C1_Witness ==
    /\ pc \in {"aggregated", "kpi"}
    /\ \E i, j, k \in DOMAIN data :
          /\ data[i].clicks = 0 /\ data[i].installs = 0 /\ data[i].impressions = 0
          /\ data[j].d1_retained_users = 0 /\ data[j].cost > 0
          /\ data[k].d1_retained_users > 0 /\ data[k].clicks > 0 /\ data[k].cost > 0

RankedTogether(x, y) ==
    \/ variant = "adapted"
    \/ /\ processed_data[x].media_type = processed_data[y].media_type
       /\ processed_data[x].platform_normalized = processed_data[y].platform_normalized

C3_SentinelOnlyInRankColumn ==
    Ranked =>
        /\ Len(processed_data) = Len(data)
        /\ \A i \in Recs :
              /\ DOMAIN data[i] \subseteq DOMAIN processed_data[i]
              /\ \A c \in DOMAIN data[i] : processed_data[i][c] = data[i][c]
              /\ (DOMAIN processed_data[i]) \ (DOMAIN data[i]) \subseteq
                    {"d1_retained_cac_for_rank", "rank_d1_cac", "rank_cpi", "rank_cpc",
                     "rank_ctr", "composite_score", "overall_rank", "performance_grade"}
              /\ processed_data[i].d1_retained_users = 0 =>
                    /\ processed_data[i].d1_retained_cac = Inf
                    /\ processed_data[i].d1_retained_cac_for_rank = <<Sentinel, 1>>
              /\ processed_data[i].d1_retained_users > 0 =>
                    processed_data[i].d1_retained_cac_for_rank = processed_data[i].d1_retained_cac

C3_Witness ==
    /\ Ranked
    /\ \E i, j \in Recs :
          /\ processed_data[i].d1_retained_users = 0
          /\ processed_data[i].d1_retained_cac_for_rank = <<Sentinel, 1>>
          /\ processed_data[j].d1_retained_users > 0

GradeIndex(g) == CHOOSE k \in DOMAIN Labels : Labels[k] = g

\* C4: with N >= 1 ranked records the grade depends on overall_rank r alone:
\* A iff r <= 0.2N, B iff 0.2N < r <= 0.5N, C iff 0.5N < r <= 0.8N,
\* D iff 0.8N < r <= N; every record has one grade of A..D and a strictly
\* lower overall_rank never has a worse grade.
C4_GradeByRankPercentile ==
    Ranked =>
        LET n == Len(processed_data)
        IN  \A i \in Recs :
               LET r2 == processed_data[i].overall_rank
                   g == processed_data[i].performance_grade
               IN  /\ g \in {"A", "B", "C", "D"}
                   /\ g = "A" <=> 5 * r2 <= 2 * n
                   /\ g = "B" <=> (2 * n < 5 * r2 /\ 5 * r2 <= 5 * n)
                   /\ g = "C" <=> (5 * n < 5 * r2 /\ 5 * r2 <= 8 * n)
                   /\ g = "D" <=> (8 * n < 5 * r2 /\ 5 * r2 <= 10 * n)
                   /\ \A j \in Recs :
                         processed_data[j].overall_rank < r2 =>
                            GradeIndex(processed_data[j].performance_grade) <= GradeIndex(g)

C4_Witness ==
    /\ Ranked
    /\ Len(processed_data) = 5
    /\ \A g \in {"A", "B", "C", "D"} : \E i \in Recs : processed_data[i].performance_grade = g

C6_AverageRankOnTies ==
    Ranked =>
        \A i \in Recs :
            LET score(k) == processed_data[k].composite_score
                lower == Cardinality({k \in Recs : Lt(score(k), score(i))})
                tied == Cardinality({k \in Recs : Eq(score(k), score(i))})
            IN  /\ tied * processed_data[i].overall_rank = 2 * SumSeq([p \in 1..tied |-> lower + p])
                /\ \A j \in Recs :
                      Eq(score(i), score(j)) =>
                         /\ processed_data[i].overall_rank = processed_data[j].overall_rank
                         /\ processed_data[i].performance_grade = processed_data[j].performance_grade

C6_Witness ==
    /\ Ranked
    /\ \E i, j, k \in Recs :
          /\ i # j
          /\ Eq(processed_data[i].composite_score, processed_data[j].composite_score)
          /\ processed_data[i].overall_rank % 2 = 1
          /\ ~Eq(processed_data[i].composite_score, processed_data[k].composite_score)

\* C7 (as claimed): two records with equal composite_score have distinct
\* overall_rank values, the one earlier in the table being ranked first.
C7_TiesBrokenByInputOrder ==
    Ranked =>
        \A i, j \in Recs :
            (i < j /\ Eq(processed_data[i].composite_score, processed_data[j].composite_score))
                => processed_data[i].overall_rank < processed_data[j].overall_rank

\* C7 (amended): overall_rank ascends with composite_score, and two records
\* with equal composite_score have the same overall_rank whatever their
\* order in the table.
C7_AscendingRankTiesShared ==
    Ranked =>
        \A i, j \in Recs :
            /\ Lt(processed_data[i].composite_score, processed_data[j].composite_score)
                  => processed_data[i].overall_rank < processed_data[j].overall_rank
            /\ Eq(processed_data[i].composite_score, processed_data[j].composite_score)
                  => processed_data[i].overall_rank = processed_data[j].overall_rank

C7_Witness ==
    /\ Ranked
    /\ \E i, j, k \in Recs :
          /\ i < j
          /\ Eq(processed_data[i].composite_score, processed_data[j].composite_score)
          /\ processed_data[i].overall_rank = processed_data[j].overall_rank
          /\ Lt(processed_data[k].composite_score, processed_data[i].composite_score)
          /\ processed_data[k].overall_rank < processed_data[i].overall_rank

\* the input rows the Row Normalizer retains: all of them in the adapted
\* variant, those with an allow-listed media source in the base variant
Retained(r) ==
    \/ variant = "adapted"
    \/ Lower(r.media_source) \in TikTokSources \cup MetaSources

InputSum(col, keep(_)) ==
    SumSeq([i \in DOMAIN raw_data |->
              IF keep(raw_data[i]) THEN ToNumeric(raw_data[i][col]) ELSE 0])

\* C8 (as claimed): total_cost and total_installs of the summary equal the
\* sums of cost and installs over all rows of the input.
C8_TotalsEqualInputSums ==
    pc = "summarised" =>
        /\ stats.total_cost = InputSum("cost", LAMBDA r : TRUE)
        /\ stats.total_installs = InputSum("installs", LAMBDA r : TRUE)

\* C8 (amended): total_cost and total_installs of the summary equal the sums
\* of cost and installs over the input rows the Row Normalizer retains.
C8_TotalsEqualRetainedSums ==
    pc = "summarised" =>
        /\ stats.total_cost = InputSum("cost", Retained)
        /\ stats.total_installs = InputSum("installs", Retained)

C8_Witness ==
    /\ pc = "summarised"
    /\ variant = "base"
    /\ \E i, j \in DOMAIN raw_data :
          /\ ~Retained(raw_data[i]) /\ ToNumeric(raw_data[i].cost) > 0
          /\ Retained(raw_data[j]) /\ ToNumeric(raw_data[j].cost) > 0
    /\ Len(processed_data) >= 2
    /\ stats.total_cost = InputSum("cost", Retained)

\* C9: avg_d1_retained_cac is the mean of d1_retained_cac over exactly the
\* records whose CAC is finite and > 0, in both variants.
C9_MeanOverFinitePositiveCac ==
    pc = "summarised" =>
        LET valid == SelectSeq(processed_data,
                               LAMBDA r : r.d1_retained_cac[2] > 0 /\ r.d1_retained_cac[1] > 0)
        IN  valid # <<>> => stats.avg_d1_retained_cac = Mean(Column(valid, "d1_retained_cac"))

\* the grouping key of an input row of the base variant
RowKey(r) ==
    <<r.campaign_name, r.adset_name>> \o r.ad_name
        \o <<GetMediaType(r.media_source), PlatformNormalized(r.platform)>>

\* the grouping key the claim gives a ranked record
RecordKey(r) ==
    IF variant = "base" THEN r.content_name \o <<r.media_type, r.platform_normalized>>
    ELSE r.content_name

\* the sum of a volume column over the retained input rows with key k
KeySum(col, k) ==
    InputSum(col, LAMBDA r : Retained(r) /\ (IF variant = "base" THEN RowKey(r) ELSE r.ad_name) = k)

VolumeColumns ==
    IF variant = "base" THEN {"cost", "installs", "clicks", "impressions", "d1_retained_users"}
    ELSE {"cost", "installs", "clicks", "impressions", "d1_retained_users", "signups"}

SheetTypes == <<"main_data", "summary", "top_performers", "pivot_table">>

\* the sheet a logical sheet is written to
SheetNameOf(sheet_type) ==
    CASE sheet_type = "main_data" -> sheet_config.main_data_sheet
      [] sheet_type = "summary" -> sheet_config.summary_sheet
      [] sheet_type = "top_performers" -> sheet_config.top_performers_sheet
      [] sheet_type = "pivot_table" -> sheet_config.pivot_table_sheet

\* the overwrite_sheet calls of the run other than the one of the backup
SheetWrites ==
    SelectSeq(calls, LAMBDA c : c.op = "overwrite_sheet" /\ c.sheet # BackupSheetName)

\* the run has returned after its publishing step had begun
ReturnedAfterPublishing == pc = "returned" /\ results # <<>>

\* C11: in a publish run, in value mode and in formula mode, each of the four
\* sheet updates (main data, summary, top performers, pivot) is attempted
\* exactly once and in that order whatever the earlier outcomes: when the run
\* has returned there is one per-sheet result and one write per sheet, in
\* that order, and a result that is not a success carries that sheet's error.
C11_EverySheetAttemptedOnceInOrder ==
    ReturnedAfterPublishing =>
        /\ [i \in DOMAIN results |-> results[i].sheet_type] = SheetTypes
        /\ [i \in DOMAIN SheetWrites |-> SheetWrites[i].sheet] =
              [i \in DOMAIN SheetTypes |-> SheetNameOf(SheetTypes[i])]
        /\ \A i \in DOMAIN results :
              Succeeded(results[i].result) \/ "error" \in DOMAIN results[i].result

\* C12: run() returns True only if every sheet update of the run reported
\* success, and returns False whenever at least one sheet publish failed.
C12_ReturnIsAndOfSheetOutcomes ==
    pc = "returned" =>
        /\ ret = <<TRUE>> => Len(results) = Len(SheetTypes) /\ OverallSuccess(results)
        /\ ~OverallSuccess(results) => ret = <<FALSE>>

\* the number of overwrite_sheet calls made for a sheet
WritesTo(sheet_name) ==
    Cardinality({k \in DOMAIN calls :
                   calls[k].op = "overwrite_sheet" /\ calls[k].sheet = sheet_name})

\* C13: during a publish run a sheet write whose transport call returns an
\* error is retried up to the bounded attempt count before the sheet is
\* reported as failed: a per-sheet result carrying a transport error stands
\* for MaxRetries write attempts on that sheet.
C13_FailedWriteWasRetried ==
    \A i \in DOMAIN results :
       (~Succeeded(results[i].result) /\ processed_data # <<>>) =>
          WritesTo(SheetNameOf(results[i].sheet_type)) = MaxRetries

\* 'error' not in result
NoErrorKey(result) == "error" \notin DOMAIN result

\* C14: a call through retry_on_failure(max_retries=3) calls the wrapped
\* operation at least once and at most 3 times; it returns the first result
\* without an 'error' key at once, making no further call; and after 3
\* failed attempts it returns the last error result.
C14_RetryBoundedAndFaithful ==
    /\ Len(calls) <= 3
    /\ \A i \in DOMAIN calls : i < Len(calls) => ~NoErrorKey(calls[i].result)
    /\ (pc = "calling" /\ calls # <<>>) => ~NoErrorKey(calls[Len(calls)].result)
    /\ pc = "calling" => Len(calls) < 3
    /\ pc = "returned" =>
          /\ Len(calls) >= 1
          /\ ret = <<calls[Len(calls)].result>>
          /\ ~NoErrorKey(ret[1]) => Len(calls) = 3

C14_Witness ==
    /\ pc = "returned"
    /\ Len(calls) = 3
    /\ ~NoErrorKey(ret[1])
    /\ \A i \in DOMAIN calls : calls[i].op = args.method

\* C15: if the input CSV is missing or cannot be loaded, the run returns
\* False and makes no transport call (no detection read, no backup, no sheet
\* write); a transport call is made only after processing and the summary
\* statistics have completed.
C15_NoTransportUnlessProcessed ==
    /\ LoadRaises(args.csv) =>
          /\ calls = <<>>
          /\ pc \in {"start", "validated", "returned"}
          /\ pc = "returned" => ret = <<FALSE>>
    /\ calls # <<>> => stats # <<>> /\ processed_data # <<>>

C15_Witness ==
    /\ args.env_ok
    /\ LoadRaises(args.csv)
    /\ pc = "returned"
    /\ ret = <<FALSE>>
    /\ calls = <<>>

\* C16: every invocation of run() terminates and returns an explicit
\* boolean: the run never waits without end, and it returns False only when
\* the environment is invalid or when processing, publishing or the CSV
\* export raised, and True otherwise.
C16_RunTerminatesWithBoolean ==
    /\ pc # "blocked"
    /\ pc = "returned" =>
          /\ ret \in {<<TRUE>>, <<FALSE>>}
          /\ ret = <<FALSE>> =>
                \/ ~args.env_ok
                \/ stats = <<>>
                \/ Len(results) < Len(SheetTypes)
                \/ args.export_csv

(* ------------- Row Normalizer: numeric cells written as text ------------ *)

\* Largest number of data rows in a file whose numeric cells are text.
MaxTextRows == 1

\* A text cell is the sequence of its characters; a blank cell is <<>>.  The
\* characters outside ASCII are written by name: "won" and "euro" are the
\* signs of those currencies.  A number is held in hundredths, so 1234.56
\* is 123456.
DigitChars == <<"0", "1", "2", "3", "4", "5", "6", "7", "8", "9">>

IsDigit(c) == \E d \in DOMAIN DigitChars : DigitChars[d] = c

DigitValue(c) == (CHOOSE d \in DOMAIN DigitChars : DigitChars[d] = c) - 1

\* the value of a run of digits
RECURSIVE DigitsValue(_)
DigitsValue(chars) ==
    IF chars = <<>> THEN 0
    ELSE 10 * DigitsValue(SubSeq(chars, 1, Len(chars) - 1)) + DigitValue(chars[Len(chars)])

AllDigits(chars) == chars # <<>> /\ \A i \in DOMAIN chars : IsDigit(chars[i])

\* the position of the first '.', or 0
PointAt(chars) ==
    IF \E i \in DOMAIN chars : chars[i] = "."
    THEN CHOOSE i \in DOMAIN chars : chars[i] = "." /\ \A j \in 1..(i - 1) : chars[j] # "."
    ELSE 0

\* an unsigned decimal numeral with at most two decimals, in hundredths;
\* <<>> when the text is no such numeral
ParseUnsigned(chars) ==
    LET p == PointAt(chars)
        whole == IF p = 0 THEN chars ELSE SubSeq(chars, 1, p - 1)
        frac == IF p = 0 THEN <<>> ELSE SubSeq(chars, p + 1, Len(chars))
    IN  IF ~AllDigits(whole) \/ (p # 0 /\ ~AllDigits(frac)) \/ Len(frac) > 2 THEN <<>>
        ELSE <<100 * DigitsValue(whole)
               + (IF Len(frac) = 1 THEN 10 * DigitsValue(frac) ELSE DigitsValue(frac))>>

\* what the float parser of read_csv and pd.to_numeric makes of a text:
\* <<v>> for a numeral with an optional leading '-', <<>> (NaN) otherwise
ParseNumber(chars) ==
    IF chars # <<>> /\ Head(chars) = "-"
    THEN LET u == ParseUnsigned(Tail(chars)) IN IF u = <<>> THEN <<>> ELSE <<0 - u[1]>>
    ELSE ParseUnsigned(chars)

\* pd.to_numeric(cell, errors='coerce') followed by fillna(0), on a text
ToNumericText(chars) == IF ParseNumber(chars) = <<>> THEN 0 ELSE ParseNumber(chars)[1]

\* str.replace(ch, '')
StrReplace(chars, ch) == SelectSeq(chars, LAMBDA c : c # ch)

\* read_csv gives a column dtype object when a cell of it is no numeral
IsObjectColumn(rows, col) ==
    \E i \in DOMAIN rows : rows[i][col] # <<>> /\ ParseNumber(rows[i][col]) = <<>>

\* the numeric columns of the two variants
NumericColumns(v) ==
    IF v = "base" THEN {"cost", "installs", "clicks", "impressions", "d1_retained_users"}
    ELSE {"cost", "impressions", "clicks", "installs", "signups", "d1_retained_users"}

\* clean_and_normalize_columns on text cells: '$' and ',' are removed from
\* the cells of an object column, then every cell is parsed
CleanedTextRows(rows) ==
    [i \in DOMAIN rows |->
       [col \in NumericColumns("adapted") |->
          IF IsObjectColumn(rows, col)
          THEN ToNumericText(StrReplace(StrReplace(rows[i][col], "$"), ","))
          ELSE ToNumericText(rows[i][col])] @@ rows[i]]

\* the numeric conversion at the head of calculate_kpis: the cell is parsed
\* as it stands
CoercedTextRows(rows) ==
    [i \in DOMAIN rows |->
       [col \in NumericColumns("base") |-> ToNumericText(rows[i][col])] @@ rows[i]]

\* the numbers written into the cells, in hundredths: 7, 1234.56, -5
WrittenValues == {700, 123456, 0 - 500}

CurrencySymbols == {"$", "won", "euro"}

\* the digits of a natural number
RECURSIVE RenderNat(_)
RenderNat(n) ==
    IF n < 10 THEN <<DigitChars[n + 1]>>
    ELSE RenderNat(n \div 10) \o <<DigitChars[(n % 10) + 1]>>

\* the digits of a natural number in groups of three separated by ','
RECURSIVE RenderGrouped(_)
RenderGrouped(n) ==
    IF n < 1000 THEN RenderNat(n)
    ELSE RenderGrouped(n \div 1000) \o <<",">>
         \o <<DigitChars[((n % 1000) \div 100) + 1], DigitChars[((n % 100) \div 10) + 1],
              DigitChars[(n % 10) + 1]>>

\* a number in hundredths as a spreadsheet export writes it: sign, currency
\* symbol ("" for none), whole part with or without thousands separators,
\* and two decimals when it has any
RenderCell(value, symbol, thousands) ==
    LET abs == IF value < 0 THEN 0 - value ELSE value
        whole == abs \div 100
        cents == abs % 100
    IN  (IF value < 0 THEN <<"-">> ELSE <<>>)
        \o (IF symbol = "" THEN <<>> ELSE <<symbol>>)
        \o (IF thousands THEN RenderGrouped(whole) ELSE RenderNat(whole))
        \o (IF cents = 0 THEN <<>>
            ELSE <<".", DigitChars[(cents \div 10) + 1], DigitChars[(cents % 10) + 1]>>)

\* the texts a numeric cell may hold: a written number, a blank, or text
\* that is no number
CellTexts ==
    {RenderCell(value, symbol, thousands) :
        value \in WrittenValues, symbol \in CurrencySymbols \cup {""}, thousands \in BOOLEAN}
    \cup {<<>>, <<"N", "/", "A">>}

\* the ad names of the rows of such a file, one per row: every row is a
\* group of its own
TextRowAds == <<"a", "b", "c">>

\* row i of the file: every numeric cell reads 7 except the cell of column
\* col, which reads text
TextRow(v, i, col, text) ==
    [c \in NumericColumns(v) |-> IF c = col THEN text ELSE <<"7">>]
    @@ (IF v = "base"
        THEN [campaign_name |-> "cmp", adset_name |-> "set", ad_name |-> <<TextRowAds[i]>>,
              media_source |-> "tiktokads_int", platform |-> "android"]
        ELSE [ad_name |-> <<TextRowAds[i]>>])

InitCoerce ==
    /\ variant \in {"base", "adapted"}
    /\ \E n \in 1..MaxTextRows :
         \E cols \in [1..n -> NumericColumns(variant)] :
            \E texts \in [1..n -> CellTexts] :
               raw_data = [i \in 1..n |-> TextRow(variant, i, cols[i], texts[i])]
    /\ data = <<>>
    /\ pc = "loaded"
    /\ processed_data = <<>>
    /\ stats = <<>>
    /\ NoRun

\* clean_and_normalize_columns on a file with text cells
CleanAndNormalizeText ==
    /\ variant = "adapted"
    /\ pc = "loaded"
    /\ data' = CleanedTextRows(raw_data)
    /\ pc' = "cleaned"
    /\ UNCHANGED <<runVars, variant, raw_data, processed_data, stats>>

\* the base variant on a file with text cells: the stages before
\* calculate_kpis keep every row (allow-listed source) and leave the cells
\* as they are (sum() of a group of one row), then calculate_kpis converts
CoerceNumericColumns ==
    /\ variant = "base"
    /\ pc = "loaded"
    /\ data' = CoercedTextRows(raw_data)
    /\ pc' = "coerced"
    /\ UNCHANGED <<runVars, variant, raw_data, processed_data, stats>>

NextCoerce ==
    \/ CleanAndNormalizeText
    \/ CoerceNumericColumns

SpecCoerce == InitCoerce /\ [][NextCoerce]_vars

(* -------------------- properties of the normalization ------------------- *)

\* the conversion of the numeric cells has run
Normalized == pc \in {"cleaned", "coerced"}

\* C19: in both variants a numeric cell written with a currency symbol
\* and/or thousands separators is normalized to the number it was written
\* from ("$1,234.56" becomes 1234.56), and a cell that cannot be parsed
\* (blank, "N/A") becomes 0.
C19_CurrencyAndSeparatorsCoerced ==
    Normalized =>
       \A i \in DOMAIN raw_data : \A col \in NumericColumns(variant) :
          /\ \A value \in WrittenValues : \A symbol \in CurrencySymbols \cup {""} :
                \A thousands \in BOOLEAN :
                   (/\ raw_data[i][col] = RenderCell(value, symbol, thousands)
                    /\ (symbol # "" \/ thousands))
                      => data[i][col] = value
          /\ raw_data[i][col] \in {<<>>, <<"N", "/", "A">>} => data[i][col] = 0

\* C20: after normalization every volume metric of every record is present
\* and >= 0, whatever the input cells held (negative numbers, blanks, text
\* that is no number).
C20_VolumesPresentAndNonNegative ==
    Normalized =>
       \A i \in DOMAIN data : \A col \in NumericColumns(variant) :
          col \in DOMAIN data[i] /\ data[i][col] >= 0

(* ------------- process() on a file lacking optional columns ------------- *)

\* Largest number of data rows in a file that lacks an optional column.
MaxDefectRows == 1

\* the columns a file may lack
OptionalColumns ==
    {"clicks", "impressions", "d1_retained_users", "signups",
     "campaign_name", "adset_name", "platform", "date"}

\* create_content_mapping without a platform column:
\* get('campaign_name', '').str.extract(r'(android|ios|aos)')[0].fillna('unknown')
PlatformFromCampaign(campaign_name) ==
    IF Lower(campaign_name) \in {"android", "ios", "aos"} THEN campaign_name ELSE "unknown"

\* the rows with the platform column create_content_mapping adds when the
\* file has none
WithPlatform(rows) ==
    [i \in DOMAIN rows |->
       IF "platform" \in DOMAIN rows[i] THEN rows[i]
       ELSE [platform |-> PlatformFromCampaign(rows[i].campaign_name)] @@ rows[i]]

\* create_content_mapping: DataFrame.get(name, '') is the str '' when the
\* column is missing, and ''.astype raises AttributeError
CreateContentMappingRaises(cols) ==
    ~({"campaign_name", "adset_name", "ad_name"} \subseteq cols)

\* extract_campaign_info_from_ad_name: processed_df['ad_name'] raises
\* KeyError when the column is missing
ExtractRaises(cols) == "ad_name" \notin cols

\* calculate_kpis reads every volume column it divides by subscript: KeyError
\* when one is missing
CalculateKpisRaises(v, cols) == ~(NumericColumns(v) \subseteq cols)

\* process() raises
ProcessRaises(v, rows) ==
    IF v = "base"
    THEN \/ CreateContentMappingRaises(Columns(rows))
         \/ CalculateKpisRaises(v, Columns(rows))
         \/ RankRaises(v, TableOf(v, WithPlatform(rows)))
    ELSE \/ ExtractRaises(Columns(rows))
         \/ CalculateKpisRaises(v, Columns(rows))
         \/ RankRaises(v, TableOf(v, rows))

\* a file of rows without at most one of the optional columns
InitDefect ==
    /\ variant \in {"base", "adapted"}
    /\ \E n \in 1..MaxDefectRows :
         \E idx \in SortedIdx(n, 1, NumKinds(variant)) :
            \E missing \in {{}} \cup {{c} : c \in OptionalColumns} :
               raw_data = Drop([i \in 1..n |-> Kind(variant, idx[i])], missing)
    /\ data = <<>>
    /\ pc = "loaded"
    /\ processed_data = <<>>
    /\ stats = <<>>
    /\ NoRun

\* process(): every stage in turn; an exception of a stage fails it
Process ==
    /\ pc = "loaded"
    /\ raw_data' = IF variant = "base" THEN NormalizeSource(raw_data) ELSE raw_data
    /\ IF ProcessRaises(variant, raw_data)
       THEN /\ pc' = "failed"
            /\ UNCHANGED <<data, processed_data>>
       ELSE \E tbl \in {TableOf(variant, IF variant = "base" THEN WithPlatform(raw_data)
                                         ELSE raw_data)} :
               /\ data' = tbl
               /\ processed_data' = IF variant = "base" THEN RankContentPerformanceBase(tbl)
                                    ELSE RankContentPerformanceAdapted(tbl)
               /\ pc' = "ranked"
    /\ UNCHANGED <<runVars, variant, stats>>

NextDefect == Process

SpecDefect == InitDefect /\ [][NextDefect]_vars

(* ------------------- properties of defective input --------------------- *)

\* C17: a row-level defect never aborts the run: when the file lacks an
\* optional column or a numeric cell is blank, process() still completes,
\* the affected metric being 0 and the affected category its default.  (A
\* file none of whose rows is allow-listed is left aside here: its failure is
\* the Ranker's, on the empty table.)
C17_RowDefectNeverAborts ==
    /\ pc = "failed" =>
          variant = "base" /\ FilteredRows(NormalizeSource(raw_data)) = <<>>
    /\ (pc = "ranked" /\ variant = "base" /\ "platform" \notin Columns(raw_data)) =>
          \A i \in DOMAIN processed_data : processed_data[i].platform_normalized = "Unknown"
    /\ (pc = "ranked" /\ variant = "adapted") =>
          \A i \in DOMAIN raw_data : \A col \in NumericColumns("adapted") :
             raw_data[i][col] = <<>> => processed_data[i][col] = 0

\* C18: ranking degeneracies are never fatal: rank_content_performance and
\* get_summary_stats complete without raising for every aggregated table,
\* a table whose records all have d1_retained_cac = +infinity and a table
\* with no records included.
C18_RankingNeverFatal ==
    /\ pc # "failed"
    /\ pc = "summarised" => stats.total_contents = Len(processed_data)

(* ------------- Row Normalizer: the inferred categories ----------------- *)

\* Largest number of words in an ad name.
MaxWords == 2

\* the words an ad name is made of: the keywords of extract_info in the
\* spellings Lower knows, and a word that is no keyword
AdWords ==
    {"TTCX", "tiktok", "meta", "Facebook", "instagram", "echo", "spoon", "innoceans",
     "participation", "blinddate", "interest", "tpo", "x"}

\* the ad names of at most n words; <<>> is a blank 'Ad' cell
RECURSIVE AdNamesUpTo(_)
AdNamesUpTo(n) ==
    IF n = 0 THEN {<<>>}
    ELSE AdNamesUpTo(n - 1)
         \cup {Append(name, w) : name \in {s \in AdNamesUpTo(n - 1) : Len(s) = n - 1}, w \in AdWords}

\* the media sources and platform cells of a row of the base variant's file
InferSources == {"tiktokads_int", "Facebook", "instagram", "organic"}

InferPlatforms == {"android", "aos", "iOS", "web"}

InitInfer ==
    /\ variant \in {"base", "adapted"}
    /\ IF variant = "adapted"
       THEN \E name \in AdNamesUpTo(MaxWords) :
               raw_data = <<[ad_name |-> name] @@ Volumes[1]>>
       ELSE \E source \in InferSources : \E platform \in InferPlatforms :
               raw_data = <<[campaign_name |-> "cmp", adset_name |-> "set", ad_name |-> <<"a">>,
                             media_source |-> source, platform |-> platform] @@ Volumes[1]>>
    /\ data = <<>>
    /\ pc = "loaded"
    /\ processed_data = <<>>
    /\ stats = <<>>
    /\ NoRun

NextInfer ==
    \/ FilterTargetMedia
    \/ CreateContentMapping
    \/ CleanAndNormalizeColumns
    \/ ExtractCampaignInfoFromAdName

SpecInfer == InitInfer /\ [][NextInfer]_vars

(* ------------------ properties of the inferred categories --------------- *)

MediaTypes == {"tiktok", "meta", "echo", "spoon", "innoceans", "other", "unknown"}

ContentThemes == {"participation", "blinddate", "interest", "tpo", "general"}

PlatformValues == {"AOS", "iOS", "mixed", "unknown"}

\* C21: for every input row the assigned media_type, content_theme and
\* platform are each one of their enumerated values, rows with a blank ad
\* name and rows with an unrecognised platform value included.
C21_CategoriesAreEnumerated ==
    /\ (variant = "adapted" /\ pc = "extracted") =>
          \A i \in DOMAIN data :
             /\ data[i].media_type \in MediaTypes
             /\ data[i].content_theme \in ContentThemes
             /\ data[i].platform \in PlatformValues
    /\ (variant = "base" /\ pc = "mapped") =>
          \A i \in DOMAIN data :
             /\ data[i].media_type \in MediaTypes
             /\ data[i].platform_normalized \in PlatformValues

\* the ordered keyword rules of the media inference
MediaRules ==
    << [keywords |-> {"ttcx", "tiktok"}, category |-> "tiktok"],
       [keywords |-> {"meta", "facebook", "instagram"}, category |-> "meta"],
       [keywords |-> {"echo"}, category |-> "echo"],
       [keywords |-> {"spoon"}, category |-> "spoon"],
       [keywords |-> {"innoceans"}, category |-> "innoceans"] >>

\* the ordered keyword rules of the theme inference
ThemeRules ==
    << [keywords |-> {"participation"}, category |-> "participation"],
       [keywords |-> {"blinddate"}, category |-> "blinddate"],
       [keywords |-> {"interest"}, category |-> "interest"],
       [keywords |-> {"tpo"}, category |-> "tpo"] >>

\* the category of the earliest rule one of whose keywords is the lower-cased
\* form of a word of the name, at any position; no_match when there is none
FirstMatch(ad_name, rules, no_match) ==
    LET hits == {k \in DOMAIN rules :
                   \E i \in DOMAIN ad_name : Lower(ad_name[i]) \in rules[k].keywords}
    IN  IF hits = {} THEN no_match
        ELSE rules[CHOOSE k \in hits : \A o \in hits : k <= o].category

\* C25: media and theme are inferred from the ad name by fixed ordered
\* keyword rules on the lower-cased name, the first matching rule winning
\* whatever the letter case and the position of the keywords; a name matching
\* no rule gets media unknown and theme general.
C25_FirstMatchingRuleWins ==
    (variant = "adapted" /\ pc = "extracted") =>
       \A i \in DOMAIN data :
          /\ data[i].media_type = FirstMatch(data[i].ad_name, MediaRules, "unknown")
          /\ data[i].content_theme = FirstMatch(data[i].ad_name, ThemeRules, "general")

(* ---------------------- properties of the ranks ------------------------ *)

\* better values get smaller ranks on the three cost metrics and on ctr
SecondaryRanksOrdered(x, y) ==
    /\ Lt(processed_data[x].cpi, processed_data[y].cpi)
          => processed_data[x].rank_cpi < processed_data[y].rank_cpi
    /\ Lt(processed_data[x].cpc, processed_data[y].cpc)
          => processed_data[x].rank_cpc < processed_data[y].rank_cpc
    /\ Lt(processed_data[x].ctr, processed_data[y].ctr)
          => processed_data[x].rank_ctr > processed_data[y].rank_ctr

Contributors(g) ==
    {i \in DOMAIN raw_data :
        /\ raw_data[i].media_source_normalized \in TikTokSources \cup MetaSources
        /\ <<raw_data[i].campaign_name, raw_data[i].adset_name>> \o raw_data[i].ad_name
              = data[g].content_name
        /\ GetMediaType(raw_data[i].media_source_normalized) = data[g].media_type
        /\ PlatformNormalized(raw_data[i].platform) = data[g].platform_normalized}

\* the number in a cell, a blank counting as 0
CellValue(cell) == IF cell = <<>> THEN 0 ELSE cell[1]

\* the sum of a volume column over a set of input rows
RECURSIVE VolumeSum(_, _)
VolumeSum(S, col) ==
    IF S = {} THEN 0
    ELSE LET i == CHOOSE k \in S : TRUE
         IN  CellValue(raw_data[i][col]) + VolumeSum(S \ {i}, col)

\* x is num / den when den > 0 and the zero-denominator value otherwise
DerivedFrom(x, num, den, default) ==
    IF den > 0 THEN RatioIs(x, num, den) ELSE x = default

\* C24: the KPI fields of every aggregated group are re-derived from the
\* group's summed volumes, with the zero-denominator rules applied to the
\* sums (never summed or averaged from row-level KPIs); a group with a single
\* contributing row has the volumes and KPIs of that row.
C24_KpisRederivedFromSums ==
    (variant = "base" /\ pc = "aggregated") =>
        \A g \in DOMAIN data :
            LET S == Contributors(g)
                cost == VolumeSum(S, "cost")
                installs == VolumeSum(S, "installs")
                clicks == VolumeSum(S, "clicks")
                impressions == VolumeSum(S, "impressions")
                d1 == VolumeSum(S, "d1_retained_users")
            IN  /\ S # {}
                /\ data[g].cost = cost /\ data[g].installs = installs
                /\ data[g].clicks = clicks /\ data[g].impressions = impressions
                /\ data[g].d1_retained_users = d1
                /\ DerivedFrom(data[g].d1_retained_cac, cost, d1, Inf)
                /\ DerivedFrom(data[g].cpi, cost, installs, Zero)
                /\ DerivedFrom(data[g].cpc, cost, clicks, Zero)
                /\ DerivedFrom(data[g].ctr, 100 * clicks, impressions, Zero)
                /\ DerivedFrom(data[g].d1_retention_rate, 100 * d1, installs, Zero)
                /\ \A i \in S :
                      S = {i} =>
                         /\ data[g].cost = CellValue(raw_data[i].cost)
                         /\ data[g].d1_retained_users = CellValue(raw_data[i].d1_retained_users)
                         /\ data[g].d1_retained_cac
                               = WhereDiv(CellValue(raw_data[i].cost),
                                          CellValue(raw_data[i].d1_retained_users), Inf)

C24_Witness ==
    /\ variant = "base"
    /\ pc = "aggregated"
    /\ \E g, h \in DOMAIN data :
          /\ \E i, j \in Contributors(g) :
                /\ i # j
                /\ raw_data[i].cost # raw_data[j].cost
                /\ raw_data[i].d1_retained_users = <<>>
          /\ data[g].d1_retained_users > 0
          /\ data[g].cost > 6
          /\ Cardinality(Contributors(h)) = 1
          /\ IsInf(data[h].d1_retained_cac)

(* ---------------------- properties of the backoff ---------------------- *)

\* C26: the wait before the retry that follows failed attempt k (k = 0, ...,
\* max_retries - 2) is d * 2^k for a generic error and d * 3^k + 2 for a
\* rate-limit error, d being the base delay; the rate-limit wait is strictly
\* longer than the generic wait of the same attempt; and no wait follows the
\* final attempt.
C26_BackoffSchedule ==
    /\ Len(waits) <= args.max_retries - 1
    /\ Len(waits) <= Len(calls)
    /\ pc = "calling" => Len(waits) = Len(calls)
    /\ \A j \in DOMAIN waits :
          LET k == j - 1
              generic == args.delay * Pow(2, k)
              rate_limit == args.delay * Pow(3, k) + 2
          IN  /\ rate_limit > generic
              /\ "error" \in DOMAIN calls[j].result
              /\ waits[j] = IF calls[j].result.error
                                \in {"Rate limit exceeded", "Request failed: 429 Too Many Requests"}
                            THEN rate_limit ELSE generic

C26_Witness ==
    /\ pc = "returned"
    /\ Len(calls) = args.max_retries
    /\ args.delay = 2
    /\ waits = <<2, 8>>
    /\ calls[1].result.error = "Request failed: connection refused"
    /\ calls[2].result.error = "Rate limit exceeded"

(* ------------------- properties of the sheet names --------------------- *)

\* the sheet names of the four logical sheets
ConfiguredSheets ==
    {sheet_config.main_data_sheet, sheet_config.summary_sheet,
     sheet_config.top_performers_sheet, sheet_config.pivot_table_sheet}

\* C29: in any publish run the four logical sheets are written to four
\* pairwise distinct sheet names, so that no overwrite of the run replaces
\* the output of an earlier one.
C29_FourDistinctSheetNames ==
    /\ sheet_config # <<>> => Cardinality(ConfiguredSheets) = 4
    /\ \A j, k \in DOMAIN calls :
          (j < k /\ calls[j].op = "overwrite_sheet" /\ calls[k].op = "overwrite_sheet")
             => calls[j].sheet # calls[k].sheet

(* ----------------------- properties of the backup ---------------------- *)

\* the number of reads the sheet detection made at the head of calls
DetectionLen ==
    IF \E net \in {"up", "down"} :
          /\ Len(DetectionReads(net)) <= Len(calls)
          /\ SubSeq(calls, 1, Len(DetectionReads(net))) = DetectionReads(net)
    THEN Len(DetectionReads(CHOOSE net \in {"up", "down"} :
                /\ Len(DetectionReads(net)) <= Len(calls)
                /\ SubSeq(calls, 1, Len(DetectionReads(net))) = DetectionReads(net)))
    ELSE Len(calls)

\* the transport answered with success
Answered(result) == "success" \in DOMAIN result /\ result.success

\* the backup was attempted and did not succeed
BackupFailed ==
    LET d == DetectionLen
    IN  /\ Len(calls) > d
        /\ calls[d + 1].op = "read_sheet"
        /\ \/ ~Answered(calls[d + 1].result)
           \/ /\ Len(calls) > d + 1
              /\ calls[d + 2].sheet = BackupSheetName
              /\ ~Answered(calls[d + 2].result)

\* C30: in a run started with the backup option the backup (read of the
\* current main sheet, then write of its content to the backup sheet) takes
\* place before any sheet of the run is overwritten, and a failed backup does
\* not prevent the update of the sheets that follows.
C30_BackupBeforeAnyOverwrite ==
    (script # "none" /\ args.backup) =>
       LET d == DetectionLen
       IN  /\ \A k \in DOMAIN calls :
                 calls[k].op = "overwrite_sheet" =>
                    /\ k > d + 1
                    /\ calls[d + 1].op = "read_sheet"
                    /\ calls[d + 1].sheet = sheet_config.main_data_sheet
                    /\ calls[k].sheet = BackupSheetName =>
                          k = d + 2 /\ Answered(calls[d + 1].result)
                    /\ (calls[k].sheet # BackupSheetName /\ Answered(calls[d + 1].result)) =>
                          k > d + 2 /\ calls[d + 2].sheet = BackupSheetName
           /\ (pc = "returned" /\ BackupFailed) =>
                 /\ results # <<>>
                 /\ results[1].sheet_type = "main_data"
                 /\ script # "formula" => Len(results) = Len(SheetTypes)

C30_Witness ==
    /\ script = "automation"
    /\ args.backup
    /\ pc = "returned"
    /\ BackupFailed
    /\ Len(results) = Len(SheetTypes)
    /\ \E k \in DOMAIN calls : calls[k].sheet = BackupSheetName
    /\ \A i \in DOMAIN results : Answered(results[i].result)

(* ------------------- Publisher: the grids it renders ------------------- *)

\* Largest number of input rows behind the table handed to the Publisher.
MaxGridRows == 2

\* the cell 'N/A'
NA == [format |-> "N/A"]

\* a text cell, or str(x)
Str(x) == [format |-> "str", value |-> x]

\* a number left in the grid as it is, not rendered through a format
Float(x) == [format |-> "float", value |-> x]

\* a number rendered through the format specification f
Fmt(f, x) == [format |-> f, value |-> x]

\* the columns prepare_data_for_sheets renders with two decimals
MoneyColumns == {"cost", "cpc", "cpi", "d1_retained_cac"}

\* the columns prepare_data_for_sheets renders with one decimal and '%'
PercentColumns == {"ctr", "d1_retention_rate"}

\* the float64 columns of the ranked table that can hold +infinity
FloatColumns ==
    {"cpc", "cpi", "ctr", "d1_retained_cac", "d1_retention_rate", "signup_rate",
     "cost_per_signup", "d1_retained_cac_for_rank", "composite_score"}

\* the int64 columns and the rank columns (float64, never infinite)
IntColumns ==
    {"cost", "installs", "clicks", "impressions", "d1_retained_users", "signups",
     "rank_d1_cac", "rank_cpi", "rank_cpc", "rank_ctr", "overall_rank"}

\* the column holds +infinity, so that replace(inf, 'N/A') turns it into an
\* object column
HoldsInf(tbl, col) == col \in FloatColumns /\ \E i \in DOMAIN tbl : IsInf(tbl[i][col])

\* the cell of column col that prepare_data_for_sheets renders for the value
\* x: only a column whose dtype is still float64 or int64 is formatted
FormatColumn(tbl, col, x) ==
    IF col \in FloatColumns /\ IsInf(x) THEN NA
    ELSE IF HoldsInf(tbl, col) THEN Float(x)
    ELSE IF col \in MoneyColumns THEN Fmt("%.2f", x)
    ELSE IF col \in PercentColumns THEN Fmt("%.1f%%", x)
    ELSE IF col \in FloatColumns \cup IntColumns THEN Fmt("int", x)
    ELSE Str(x)

\* prepare_data_for_sheets: the data rows of the main-data grid
MainGrid(tbl) ==
    [i \in DOMAIN tbl |-> [col \in DOMAIN tbl[i] |-> FormatColumn(tbl, col, tbl[i][col])]]

\* create_summary_sheet_data: the value cells of the four statistics
SummaryGrid(st) ==
    [total_contents |-> Str(st.total_contents),
     total_cost |-> Fmt("$%,.2f", st.total_cost),
     total_installs |-> Fmt("%,", st.total_installs),
     avg_d1_retained_cac |-> Fmt("$%.2f", st.avg_d1_retained_cac)]

\* the position of record i in nsmallest(n, 'overall_rank'): ties keep the
\* order of the table
Position(tbl, i) ==
    Cardinality({j \in DOMAIN tbl :
                   \/ tbl[j].overall_rank < tbl[i].overall_rank
                   \/ tbl[j].overall_rank = tbl[i].overall_rank /\ j < i}) + 1

\* stats['top_performers']: nsmallest(5, 'overall_rank') in the base variant,
\* nsmallest(10, 'overall_rank') in the adapted variant
TopPerformers(v, tbl) ==
    LET n == IF v = "base" THEN 5 ELSE 10
        m == IF Len(tbl) < n THEN Len(tbl) ELSE n
    IN  [k \in 1..m |-> tbl[CHOOSE i \in DOMAIN tbl : Position(tbl, i) = k]]

\* create_top_performers_data: the rows of the first ten top performers
TopPerformersGrid(top) ==
    LET m == IF Len(top) < 10 THEN Len(top) ELSE 10
    IN  [k \in 1..m |->
           [rank |-> Str(k),
            content_name |-> Str(top[k].content_name),
            media_type |-> Str(top[k].media_type),
            platform_normalized |-> Str(IF "platform_normalized" \in DOMAIN top[k]
                                        THEN top[k].platform_normalized ELSE ""),
            performance_grade |-> Str(top[k].performance_grade),
            d1_retained_cac |-> IF IsInf(top[k].d1_retained_cac) THEN NA
                                ELSE Fmt("$%.2f", top[k].d1_retained_cac)]]

\* aggfunc='mean' on the d1_retained_cac values of one group: a group that
\* holds +infinity has the mean +infinity
GroupMean(vals) ==
    IF \E i \in DOMAIN vals : IsInf(vals[i]) THEN Inf
    ELSE LET s == SumFrac(vals) IN <<s[1], s[2] * Len(vals)>>

\* the cell create_pivot_table_data renders for a mean: 0 (also the
\* fill_value of an empty combination) gives 'N/A', any other float goes
\* through the format '$%.2f'
PivotCell(vals) ==
    IF vals = <<>> THEN NA
    ELSE LET value == GroupMean(vals)
         IN  IF value[1] = 0 THEN NA ELSE Fmt("$%.2f", value)

\* the d1_retained_cac values of the records of one media type (and, when
\* the table has the column, one platform_normalized)
PivotGroup(tbl, m, p) ==
    LET in(r) == /\ r.media_type = m
                 /\ "platform_normalized" \in DOMAIN r => r.platform_normalized = p
    IN  Column(SelectSeq(tbl, in), "d1_retained_cac")

\* create_pivot_table_data: media_type x platform_normalized when both
\* columns exist, media_type alone otherwise
PivotGrid(tbl) ==
    LET medias == {tbl[i].media_type : i \in DOMAIN tbl}
        platforms == IF "platform_normalized" \in Columns(tbl)
                     THEN {tbl[i].platform_normalized : i \in DOMAIN tbl}
                     ELSE {"d1_retained_cac"}
    IN  [m \in medias |-> [p \in platforms |-> PivotCell(PivotGroup(tbl, m, p))]]

\* update_all_sheets is handed the ranked table and its statistics
InitGrid ==
    /\ variant \in {"base", "adapted"}
    /\ \E n \in 1..MaxGridRows :
         \E idx \in SortedIdx(n, 1, NumKinds(variant)) :
            \E tbl \in {TableOf(variant, [i \in 1..n |-> Kind(variant, idx[i])])} :
               /\ ~RankRaises(variant, tbl)
               /\ processed_data = IF variant = "base" THEN RankContentPerformanceBase(tbl)
                                   ELSE RankContentPerformanceAdapted(tbl)
    /\ stats = SummaryStats(variant, processed_data)
               @@ [top_performers |-> TopPerformers(variant, processed_data)]
    /\ raw_data = <<>>
    /\ data = <<>>
    /\ pc = "publishing"
    /\ script = "none"
    /\ args = <<>>
    /\ remote = {}
    /\ sheet_config = <<>>
    /\ calls = <<>>
    /\ results = <<>>
    /\ ret = <<>>
    /\ waits = <<>>

\* overwrite_sheet(sheet_id, grid, sheet_name) as update_all_sheets issues it
Overwrite(n, type, grid) ==
    /\ pc = "publishing"
    /\ Len(calls) = n
    /\ calls' = Append(calls, [op |-> "overwrite_sheet", sheet |-> type, data |-> grid])
    /\ UNCHANGED <<variant, raw_data, data, processed_data, stats, script, args, remote,
                   sheet_config, results, ret, waits>>

\* update_main_data_sheet
PrepareDataForSheets ==
    /\ Overwrite(0, "main_data", MainGrid(processed_data))
    /\ UNCHANGED pc

\* update_summary_sheet
CreateSummarySheetData ==
    /\ Overwrite(1, "summary", SummaryGrid(stats))
    /\ UNCHANGED pc

\* update_top_performers_sheet
CreateTopPerformersData ==
    /\ Overwrite(2, "top_performers", TopPerformersGrid(stats.top_performers))
    /\ UNCHANGED pc

\* update_pivot_sheet, the last step of update_all_sheets
CreatePivotTableData ==
    /\ pc = "publishing"
    /\ Len(calls) = 3
    /\ calls' = Append(calls, [op |-> "overwrite_sheet", sheet |-> "pivot_table",
                               data |-> PivotGrid(processed_data)])
    /\ pc' = "published"
    /\ UNCHANGED <<variant, raw_data, data, processed_data, stats, script, args, remote,
                   sheet_config, results, ret, waits>>

NextGrid ==
    \/ PrepareDataForSheets
    \/ CreateSummarySheetData
    \/ CreateTopPerformersData
    \/ CreatePivotTableData

SpecGrid == InitGrid /\ [][NextGrid]_vars

\* the grid sent to the sheet of the given type, once it has been sent
Sent(type) == \E k \in DOMAIN calls : calls[k].sheet = type

GridOf(type) == calls[CHOOSE k \in DOMAIN calls : calls[k].sheet = type].data

\* the cell shows an infinite number as text ('inf', '$inf') instead of 'N/A'
TextualInfinity(cell) ==
    /\ cell.format \in {"float", "%.2f", "%.1f%%", "int", "$%.2f"}
    /\ IsInf(cell.value)

\* C22: in the main-data, summary, top-performers and pivot grids every
\* infinite value is rendered 'N/A' and no cell shows an infinity as text
C22_InfinityRenderedNA ==
    /\ Sent("main_data") =>
         \A i \in DOMAIN processed_data :
            \A col \in FloatColumns \cap DOMAIN processed_data[i] :
               LET cell == GridOf("main_data")[i][col]
               IN  /\ IsInf(processed_data[i][col]) => cell = NA
                   /\ ~TextualInfinity(cell)
    /\ Sent("summary") =>
         GridOf("summary").avg_d1_retained_cac
            = Fmt("$%.2f", AvgD1RetainedCac(variant, processed_data))
    /\ Sent("top_performers") =>
         \A k \in DOMAIN GridOf("top_performers") :
            LET cell == GridOf("top_performers")[k].d1_retained_cac
            IN  /\ IsInf(stats.top_performers[k].d1_retained_cac) => cell = NA
                /\ ~TextualInfinity(cell)
    /\ Sent("pivot_table") =>
         \A m \in DOMAIN GridOf("pivot_table") :
            \A p \in DOMAIN GridOf("pivot_table")[m] :
               ~TextualInfinity(GridOf("pivot_table")[m][p])

\* C27: in the main-data grid every finite cost, cpc, cpi and
\* d1_retained_cac is rendered with two decimals and every finite ctr and
\* d1_retention_rate with one decimal and '%', whatever the other rows of
\* the column hold
C27_FiniteValuesFormatted ==
    Sent("main_data") =>
       \A i \in DOMAIN processed_data :
          /\ \A col \in {"cpc", "cpi", "d1_retained_cac"} \cap DOMAIN processed_data[i] :
                ~IsInf(processed_data[i][col])
                   => GridOf("main_data")[i][col].format = "%.2f"
          /\ GridOf("main_data")[i].cost.format = "%.2f"
          /\ \A col \in PercentColumns \cap DOMAIN processed_data[i] :
                ~IsInf(processed_data[i][col])
                   => GridOf("main_data")[i][col].format = "%.1f%%"

(* ------------- formula mode: the columns behind the letters ------------ *)

\* column_mapping of clean_and_normalize_columns, in the order of the table
ColumnMapping ==
    << <<"Ad", "ad_name">>, <<"Cost (sum)", "cost">>,
       <<"Impressions (sum)", "impressions">>, <<"Clicks (sum)", "clicks">>,
       <<"Installs (sum)", "installs">>,
       <<"Unique Users - etc_sign_up (sum)", "signups">>,
       <<"Retention Day 01 (sum)", "d1_retained_users">> >>

\* the header of a CSV whose columns follow the column-mapping table
MappingOrder == [k \in DOMAIN ColumnMapping |-> ColumnMapping[k][1]]

\* the orders in which a CSV can list the columns of the set S
RECURSIVE HeaderOrders(_)
HeaderOrders(S) ==
    IF S = {} THEN {<<>>}
    ELSE UNION {{<<c>> \o h : h \in HeaderOrders(S \ {c})} : c \in S}

\* df.rename(columns=column_mapping): the names change, the order stays
Rename(header) ==
    [k \in DOMAIN header |->
       IF \E m \in DOMAIN ColumnMapping : ColumnMapping[m][1] = header[k]
       THEN ColumnMapping[CHOOSE m \in DOMAIN ColumnMapping : ColumnMapping[m][1] = header[k]][2]
       ELSE header[k]]

\* df[col] = ... for each name of cols in turn: a new column is appended on
\* the right, an existing one keeps its place
RECURSIVE Assign(_, _)
Assign(header, cols) ==
    IF cols = <<>> THEN header
    ELSE Assign(IF \E k \in DOMAIN header : header[k] = Head(cols)
                THEN header ELSE Append(header, Head(cols)),
                Tail(cols))

\* the columns extract_campaign_info_from_ad_name assigns, in order
InfoColumns == <<"media_type", "content_theme", "creative_type", "platform", "content_name">>

\* the columns AppsflyerDataProcessorAdapted.calculate_kpis assigns, in order
KpiColumnOrder ==
    <<"cpc", "cpi", "ctr", "d1_retained_cac", "d1_retention_rate", "signup_rate",
      "cost_per_signup">>

\* the columns AppsflyerDataProcessorAdapted.rank_content_performance
\* assigns, in order
RankColumnOrder ==
    <<"d1_retained_cac_for_rank", "rank_d1_cac", "rank_cpi", "rank_cpc", "rank_ctr",
      "composite_score", "overall_rank", "performance_grade">>

\* the column letters of a sheet
Letters ==
    <<"A", "B", "C", "D", "E", "F", "G", "H", "I", "J", "K", "L", "M",
      "N", "O", "P", "Q", "R", "S", "T", "U", "V", "W", "X", "Y", "Z">>

\* a formula's reference to the column `ref` of the main sheet, meant to
\* hold the field `field`
Ref(field, ref) == [field |-> field, ref |-> ref]

\* create_summary_formula_data: the columns its formulas read
SummaryFormulaRefs ==
    << Ref("cost", "B"), Ref("installs", "E"), Ref("d1_retained_users", "G"),
       Ref("d1_retained_cac", "P"), Ref("cpi", "N"), Ref("ctr", "O"),
       Ref("media_type", "H"), Ref("performance_grade", "Z") >>

\* create_top_performers_formula_data: the sort key Y2:Y1000 and the columns
\* INDEX takes out of A2:Z1000, by number
TopPerformersFormulaRefs ==
    << Ref("overall_rank", "Y"), Ref("ad_name", Letters[1]), Ref("media_type", Letters[8]),
       Ref("content_theme", Letters[9]), Ref("performance_grade", Letters[26]),
       Ref("d1_retained_cac", Letters[16]), Ref("cost", Letters[2]),
       Ref("installs", Letters[5]), Ref("d1_retained_users", Letters[7]) >>

\* create_pivot_formula_data: the columns its formulas read
PivotFormulaRefs ==
    << Ref("media_type", "H"), Ref("d1_retained_cac", "P"), Ref("cost", "B"),
       Ref("installs", "E"), Ref("content_theme", "I") >>

\* a CSV with the seven mapped columns, in any order, has been loaded
InitColumns ==
    /\ variant = "adapted"
    /\ raw_data \in HeaderOrders({ColumnMapping[k][1] : k \in DOMAIN ColumnMapping})
    /\ data = <<>>
    /\ pc = "loaded"
    /\ processed_data = <<>>
    /\ stats = <<>>
    /\ script = "formula"
    /\ args = <<>>
    /\ remote = {}
    /\ sheet_config = <<>>
    /\ calls = <<>>
    /\ results = <<>>
    /\ ret = <<>>
    /\ waits = <<>>

\* a step of the pipeline, seen on the list of columns of its DataFrame
ColumnsStep(to, header) ==
    /\ pc' = to
    /\ data' = header
    /\ UNCHANGED <<runVars, variant, raw_data, processed_data, stats>>

\* clean_and_normalize_columns
RenameColumns ==
    /\ pc = "loaded"
    /\ ColumnsStep("cleaned", Rename(raw_data))

\* extract_campaign_info_from_ad_name
AssignInfoColumns ==
    /\ pc = "cleaned"
    /\ ColumnsStep("extracted", Assign(data, InfoColumns))

\* calculate_kpis
AssignKpiColumns ==
    /\ pc = "extracted"
    /\ ColumnsStep("kpi", Assign(data, KpiColumnOrder))

\* rank_content_performance
AssignRankColumns ==
    /\ pc = "kpi"
    /\ ColumnsStep("ranked", Assign(data, RankColumnOrder))

\* a grid is built for the sheet of the given type
Build(to, type, grid) ==
    /\ pc' = to
    /\ calls' = Append(calls, [op |-> "overwrite_sheet", sheet |-> type, data |-> grid])
    /\ UNCHANGED <<variant, raw_data, data, processed_data, stats, script, args, remote,
                   sheet_config, results, ret, waits>>

\* prepare_data_for_sheets: headers = list(df_clean.columns), the first row
\* of the main sheet
ListHeaders ==
    /\ pc = "ranked"
    /\ Build("main_data", "main_data", data)

\* update_summary_sheet_with_formulas
CreateSummaryFormulaData ==
    /\ pc = "main_data"
    /\ Build("summary", "summary", SummaryFormulaRefs)

\* update_top_performers_sheet_with_formulas
CreateTopPerformersFormulaData ==
    /\ pc = "summary"
    /\ Build("top_performers", "top_performers", TopPerformersFormulaRefs)

\* update_pivot_sheet_with_formulas
CreatePivotFormulaData ==
    /\ pc = "top_performers"
    /\ Build("pivot_table", "pivot_table", PivotFormulaRefs)

NextColumns ==
    \/ RenameColumns
    \/ AssignInfoColumns
    \/ AssignKpiColumns
    \/ AssignRankColumns
    \/ ListHeaders
    \/ CreateSummaryFormulaData
    \/ CreateTopPerformersFormulaData
    \/ CreatePivotFormulaData

SpecColumns == InitColumns /\ [][NextColumns]_vars

\* the field in the column of the main sheet that a letter denotes
ColumnAt(header, letter) ==
    LET k == CHOOSE k \in DOMAIN Letters : Letters[k] = letter
    IN  IF k \in DOMAIN header THEN header[k] ELSE "none"

\* C28: for a CSV whose columns follow the column-mapping table, every
\* column letter of the formula grids denotes the main-sheet column it is
\* meant for (B cost, E installs, G d1_retained_users, H media_type,
\* I content_theme, N cpi, O ctr, P d1_retained_cac, Y overall_rank,
\* Z performance_grade)
C28_LettersDenoteTheirColumns ==
    raw_data = MappingOrder =>
       \A k \in DOMAIN calls :
          calls[k].sheet # "main_data" =>
             \A j \in DOMAIN calls[k].data :
                ColumnAt(calls[1].data, calls[k].data[j].ref) = calls[k].data[j].field

====
